---- MODULE Spec2Model ----
(***************************************************************************)
(* Model of the SQL Server -> PostgreSQL migration tool: the schema        *)
(* converter's pure functions (SchemaConverter), and the orchestrator's    *)
(* phase sequence (MigrationOrchestrator.migrate) with its audit trail.    *)
(*                                                                         *)
(* Conventions.  A Python string is a sequence of one-character strings.   *)
(* A nullable value is None == <<>> or Some(v) == <<v>>.  A PostgreSQL     *)
(* type string is a sequence of tokens: the mapped type name as one token  *)
(* followed by the characters that formatting appends to it.               *)
(***************************************************************************)
EXTENDS Integers, Sequences, FiniteSets, TLC

VARIABLES
    \* SchemaConverter._convert_default_value applied to one input
    def_in, def_out, def_pc,
    \* SchemaConverter._convert_tables loop over one table's columns
    columns, col_i, converted_columns, warnings, col_pc,
    \* the run of main() and MigrationOrchestrator.migrate()
    pc,                 \* the statement the run is at
    dry_run,            \* the --dry-run flag
    batch_size,         \* config.get('batch_size', 10000)
    source,             \* the source database: its tables and their row counts
    source_views,       \* the views of the source database
    metadata,           \* the local `metadata` of migrate()
    converted_schema,   \* the local `converted_schema` of migrate()
    table_i,            \* position of the loop over source_metadata['tables']
    generator,          \* the generator object returned by extract_data
    data_batch,         \* the local `data_batch` of _migrate_data
    converted_data,     \* the local `converted_data` of _migrate_data
    calls,              \* every call made on a collaborator so far, in order
    audit_data,         \* MigrationLogger.audit_data
    audit_file,         \* the content of logs/migration_audit.json
    clock,              \* datetime.now()
    exc,                \* the exception in flight
    exit_status,        \* the exit status of the process
    target,             \* the relations of the target database
    \* the run of MigrationOrchestrator.analyze()
    perf_report,        \* the local `perf_report` of analyze()
    \* SchemaConverter._convert_indexes: the loop over one index dict
    indexes, idx_i, converted_indexes, idx_pc,
    \* SchemaConverter._convert_tsql_to_pgsql: the loop over the rewrite rules
    tsql, result, rule_i, tsql_pc,
    \* DataConverter.convert_batch applied to one DataFrame
    df, converted_batch, df_pc

def_vars == <<def_in, def_out, def_pc>>
col_vars == <<columns, col_i, converted_columns, col_pc>>
cfg_vars == <<dry_run, batch_size, source, source_views>>
loop_vars == <<table_i, generator, data_batch, converted_data>>
audit_vars == <<audit_data, audit_file, clock>>
idx_vars == <<indexes, idx_i, converted_indexes, idx_pc>>
tsql_vars == <<tsql, result, rule_i, tsql_pc>>
df_vars == <<df, converted_batch, df_pc>>
run_vars == <<pc, cfg_vars, metadata, converted_schema, loop_vars, calls,
              audit_vars, exc, exit_status, target, perf_report>>
vars == <<def_vars, col_vars, warnings, run_vars, idx_vars, tsql_vars, df_vars>>

----------------------------------------------------------------------------
(* Bounds of the model *)

MaxWrap == 2        \* layers of parentheses put around a default expression
MaxLength == 2      \* largest bounded CHARACTER_MAXIMUM_LENGTH
MaxPrecision == 2   \* largest NUMERIC_PRECISION
MaxScale == 1       \* largest NUMERIC_SCALE
MaxCols == 2        \* columns of a table in the column-conversion loop
MaxRows == 2        \* rows of a source table
MaxBatch == 2       \* largest configured batch_size

----------------------------------------------------------------------------
(* Python values *)

None == <<>>
Some(v) == <<v>>

\* Python truthiness of a nullable int: None and 0 are falsy
TruthyInt(o) ==
    o # None /\ o[1] # 0

\* Python truthiness of a nullable str: None and "" are falsy
TruthyStr(o) ==
    o # None /\ o[1] # <<>>

UpperChars ==
    <<"A","B","C","D","E","F","G","H","I","J","K","L","M",
      "N","O","P","Q","R","S","T","U","V","W","X","Y","Z">>

LowerChars ==
    <<"a","b","c","d","e","f","g","h","i","j","k","l","m",
      "n","o","p","q","r","s","t","u","v","w","x","y","z">>

LowerChar(c) ==
    IF \E i \in 1..26 : UpperChars[i] = c
    THEN LowerChars[CHOOSE i \in 1..26 : UpperChars[i] = c]
    ELSE c

\* str.lower()
Lower(s) ==
    [i \in 1..Len(s) |-> LowerChar(s[i])]

RECURSIVE LStrip(_, _)
LStrip(s, chars) ==
    IF s # <<>> /\ Head(s) \in chars THEN LStrip(Tail(s), chars) ELSE s

RECURSIVE RStrip(_, _)
RStrip(s, chars) ==
    IF s # <<>> /\ s[Len(s)] \in chars
    THEN RStrip(SubSeq(s, 1, Len(s) - 1), chars)
    ELSE s

\* str.strip(chars): every leading and every trailing character of the set
Strip(s, chars) ==
    RStrip(LStrip(s, chars), chars)

DigitChars ==
    <<"0","1","2","3","4","5","6","7","8","9">>

RECURSIVE Digits(_)
Digits(n) ==
    IF n < 10
    THEN <<DigitChars[n + 1]>>
    ELSE Digits(n \div 10) \o <<DigitChars[(n % 10) + 1]>>

\* str(n) of an int, as an f-string renders it
Str(n) ==
    IF n < 0 THEN <<"-">> \o Digits(0 - n) ELSE Digits(n)

\* dict lookup in an insertion-ordered dict kept as a sequence of <<key, value>>
HasKey(d, k) ==
    \E i \in 1..Len(d) : d[i][1] = k

Get(d, k) ==
    d[CHOOSE i \in 1..Len(d) : d[i][1] = k][2]

\* the concatenation of a sequence of sequences
RECURSIVE Flatten(_)
Flatten(ss) ==
    IF ss = <<>> THEN <<>> ELSE Head(ss) \o Flatten(Tail(ss))

----------------------------------------------------------------------------
(* SchemaConverter *)

data_type_mapping ==
    <<
       <<<<"i","n","t">>, <<"INTEGER">> >>,
       <<<<"b","i","g","i","n","t">>, <<"BIGINT">> >>,
       <<<<"s","m","a","l","l","i","n","t">>, <<"SMALLINT">> >>,
       <<<<"t","i","n","y","i","n","t">>, <<"SMALLINT">> >>,
       <<<<"b","i","t">>, <<"BOOLEAN">> >>,
       <<<<"d","e","c","i","m","a","l">>, <<"DECIMAL">> >>,
       <<<<"n","u","m","e","r","i","c">>, <<"NUMERIC">> >>,
       <<<<"m","o","n","e","y">>, <<"DECIMAL(15,2)">> >>,
       <<<<"s","m","a","l","l","m","o","n","e","y">>, <<"DECIMAL(10,4)">> >>,
       <<<<"f","l","o","a","t">>, <<"DOUBLE PRECISION">> >>,
       <<<<"r","e","a","l">>, <<"REAL">> >>,
       <<<<"d","a","t","e","t","i","m","e">>, <<"TIMESTAMP">> >>,
       <<<<"d","a","t","e","t","i","m","e","2">>, <<"TIMESTAMP">> >>,
       <<<<"s","m","a","l","l","d","a","t","e","t","i","m","e">>, <<"TIMESTAMP">> >>,
       <<<<"d","a","t","e">>, <<"DATE">> >>,
       <<<<"t","i","m","e">>, <<"TIME">> >>,
       <<<<"d","a","t","e","t","i","m","e","o","f","f","s","e","t">>, <<"TIMESTAMP WITH TIME ZONE">> >>,
       <<<<"c","h","a","r">>, <<"CHAR">> >>,
       <<<<"v","a","r","c","h","a","r">>, <<"VARCHAR">> >>,
       <<<<"n","c","h","a","r">>, <<"CHAR">> >>,
       <<<<"n","v","a","r","c","h","a","r">>, <<"VARCHAR">> >>,
       <<<<"t","e","x","t">>, <<"TEXT">> >>,
       <<<<"n","t","e","x","t">>, <<"TEXT">> >>,
       <<<<"b","i","n","a","r","y">>, <<"BYTEA">> >>,
       <<<<"v","a","r","b","i","n","a","r","y">>, <<"BYTEA">> >>,
       <<<<"i","m","a","g","e">>, <<"BYTEA">> >>,
       <<<<"u","n","i","q","u","e","i","d","e","n","t","i","f","i","e","r">>, <<"UUID">> >>,
       <<<<"x","m","l">>, <<"XML">> >>
    >>

\* the dict `conversions` of _convert_default_value, in insertion order
conversions ==
    <<
       <<<<"g","e","t","d","a","t","e","(",")">>,
         <<"C","U","R","R","E","N","T","_","T","I","M","E","S","T","A","M","P">> >>,
       <<<<"g","e","t","u","t","c","d","a","t","e","(",")">>,
         <<"C","U","R","R","E","N","T","_","T","I","M","E","S","T","A","M","P">> >>,
       <<<<"n","e","w","i","d","(",")">>,
         <<"g","e","n","_","r","a","n","d","o","m","_","u","u","i","d","(",")">> >>,
       <<<<"u","s","e","r","_","n","a","m","e","(",")">>,
         <<"C","U","R","R","E","N","T","_","U","S","E","R">> >>,
       <<<<"s","y","s","t","e","m","_","u","s","e","r">>,
         <<"C","U","R","R","E","N","T","_","U","S","E","R">> >>
    >>

\* default_value.strip('()')
_strip_parentheses(default_value) ==
    Strip(default_value, {"(", ")"})

\* the loop over conversions.items(): the first key equal to the lowered value
_lookup_conversion(stripped) ==
    IF \E i \in 1..Len(conversions) : Lower(stripped) = conversions[i][1]
    THEN Some(conversions[CHOOSE i \in 1..Len(conversions) :
                  /\ Lower(stripped) = conversions[i][1]
                  /\ \A j \in 1..(i - 1) : Lower(stripped) # conversions[j][1]][2])
    ELSE Some(stripped)

_convert_default_value(default_value) ==
    IF ~TruthyStr(default_value)
    THEN None
    ELSE _lookup_conversion(_strip_parentheses(default_value[1]))

\* a slip: the fallback taken without logging the warning
_map_data_type_silent(sql_server_type) ==
    IF HasKey(data_type_mapping, sql_server_type)
    THEN [pg_type |-> Get(data_type_mapping, sql_server_type), warned |-> <<>>]
    ELSE [pg_type |-> <<"TEXT">>, warned |-> <<>>]

\* lines 86-90: the mapped type, or TEXT and one logger.warning
_map_data_type(sql_server_type) ==
    IF HasKey(data_type_mapping, sql_server_type)
    THEN [pg_type |-> Get(data_type_mapping, sql_server_type), warned |-> <<>>]
    ELSE [pg_type |-> <<"TEXT">>, warned |-> <<sql_server_type>>]

\* the list ['varchar', 'nvarchar', 'char', 'nchar'] of line 93
_length_types ==
    { <<"v","a","r","c","h","a","r">>, <<"n","v","a","r","c","h","a","r">>,
      <<"c","h","a","r">>, <<"n","c","h","a","r">> }

\* the list ['decimal', 'numeric'] of line 100
_precision_types ==
    { <<"d","e","c","i","m","a","l">>, <<"n","u","m","e","r","i","c">> }

\* a slip: the MAX sentinel formatted as a length
_apply_length_no_sentinel(pg_type, column, sql_server_type) ==
    IF TruthyInt(column.max_length) /\ sql_server_type \in _length_types
    THEN pg_type \o <<"(">> \o Str(column.max_length[1]) \o <<")">>
    ELSE pg_type

\* lines 93-97: length specification
_apply_length(pg_type, column, sql_server_type) ==
    IF TruthyInt(column.max_length) /\ sql_server_type \in _length_types
    THEN IF column.max_length[1] = -1
         THEN <<"TEXT">>
         ELSE pg_type \o <<"(">> \o Str(column.max_length[1]) \o <<")">>
    ELSE pg_type

\* lines 100-104: precision and scale
_apply_precision(pg_type, column, sql_server_type) ==
    IF TruthyInt(column.precision) /\ sql_server_type \in _precision_types
    THEN IF TruthyInt(column.scale)
         THEN pg_type \o <<"(">> \o Str(column.precision[1]) \o <<",">>
                      \o Str(column.scale[1]) \o <<")">>
         ELSE pg_type \o <<"(">> \o Str(column.precision[1]) \o <<")">>
    ELSE pg_type

\* the converted column, and the warnings the call logged
_convert_column(column) ==
    LET sql_server_type == Lower(column.data_type)
        m == _map_data_type(sql_server_type)
        with_length == _apply_length(m.pg_type, column, sql_server_type)
        pg_type == _apply_precision(with_length, column, sql_server_type)
    IN  [column |-> [name |-> column.name,
                     data_type |-> pg_type,
                     is_nullable |-> column.is_nullable,
                     default_value |-> _convert_default_value(column.default_value),
                     ordinal_position |-> column.ordinal_position],
         warned |-> m.warned]

----------------------------------------------------------------------------
(* Inputs of the pure-function specifications *)

UpperChar(c) ==
    IF \E i \in 1..26 : LowerChars[i] = c
    THEN UpperChars[CHOOSE i \in 1..26 : LowerChars[i] = c]
    ELSE c

Upper(s) ==
    [i \in 1..Len(s) |-> UpperChar(s[i])]

Capitalize(s) ==
    [i \in 1..Len(s) |-> IF i = 1 THEN UpperChar(s[i]) ELSE s[i]]

MappedTypeNames ==
    { data_type_mapping[i][1] : i \in 1..Len(data_type_mapping) }

UnknownTypeNames ==
    { <<"g","e","o","g","r","a","p","h","y">>,
      <<"H","I","E","R","A","R","C","H","Y","I","D">>,
      <<"S","q","l","_","V","a","r","i","a","n","t">> }

\* every mapped name in lower, upper and capitalised case, and unmapped names
TypeNames ==
    MappedTypeNames \cup { Upper(t) : t \in MappedTypeNames }
                    \cup { Capitalize(t) : t \in MappedTypeNames }
                    \cup UnknownTypeNames

\* SQL Server's character types, which carry a CHARACTER_MAXIMUM_LENGTH
CharacterTypes ==
    { <<"c","h","a","r">>, <<"v","a","r","c","h","a","r">>,
      <<"n","c","h","a","r">>, <<"n","v","a","r","c","h","a","r">> }

\* SQL Server's exact numerics with a declared precision and scale
DecimalTypes ==
    { <<"d","e","c","i","m","a","l">>, <<"n","u","m","e","r","i","c">> }

\* the other mapped types for which the catalog reports a character length
OtherLengthTypes ==
    { <<"b","i","n","a","r","y">>, <<"v","a","r","b","i","n","a","r","y">>,
      <<"i","m","a","g","e">>, <<"t","e","x","t">>, <<"n","t","e","x","t">>,
      <<"x","m","l">> }

Lengths == { Some(n) : n \in {-1} \cup 1..MaxLength }
Precisions == { Some(n) : n \in 1..MaxPrecision }
Scales == { Some(n) : n \in 0..MaxScale }

\* (max_length, precision, scale) as INFORMATION_SCHEMA.COLUMNS reports them
\* for a column of type t: a length for character types, a length or NULL
\* for binary, large-object and user-defined types, a precision and scale or
\* NULLs for the numeric and temporal types
Facets(t) ==
    IF Lower(t) \in CharacterTypes
    THEN { <<l, None, None>> : l \in Lengths }
    ELSE IF Lower(t) \in MappedTypeNames \ OtherLengthTypes
    THEN { <<None, None, None>> } \cup
         { <<None, p, s>> : p \in Precisions, s \in Scales \cup {None} }
    ELSE { <<l, None, None>> : l \in Lengths \cup {None} }

ColumnDefaults ==
    { None,
      Some(<<"(","g","e","t","d","a","t","e","(",")",")">>),
      Some(<<"(","1","0","0",")">>) }

Column(n, t, f, d, pos) ==
    [name |-> n, data_type |-> t, max_length |-> f[1], precision |-> f[2],
     scale |-> f[3], is_nullable |-> TRUE, default_value |-> d,
     ordinal_position |-> pos]

\* one-column tables: every type name with each of its facets and defaults
SingleColumnTables ==
    UNION { { <<Column("c1", t, f, d, 1)>> : f \in Facets(t), d \in ColumnDefaults } :
            t \in TypeNames }

ColumnNames ==
    <<"c1", "c2", "c3", "c4">>

\* a few columns for the tables of several columns: <<type name, facets>>
SampleTypeNames ==
    { << <<"i","n","t">>, <<None, None, None>> >>,
      << <<"N","V","a","r","C","h","a","r">>, <<Some(-1), None, None>> >>,
      << <<"N","V","a","r","C","h","a","r">>, <<Some(1), None, None>> >>,
      << <<"D","e","c","i","m","a","l">>, <<None, Some(1), Some(0)>> >>,
      << <<"g","e","o","g","r","a","p","h","y">>, <<Some(-1), None, None>> >>,
      << <<"H","I","E","R","A","R","C","H","Y","I","D">>, <<None, None, None>> >> }

SampleColumns(n, pos) ==
    { Column(n, tf[1], tf[2], None, pos) : tf \in SampleTypeNames }

RECURSIVE SampleTables(_)
SampleTables(k) ==
    IF k = 0
    THEN { <<>> }
    ELSE { Append(cs, c) : cs \in SampleTables(k - 1),
                           c \in SampleColumns(ColumnNames[k], k) }

ColumnTables ==
    SingleColumnTables \cup UNION { SampleTables(k) : k \in 2..MaxCols }

\* default expressions: a core wrapped in k layers of parentheses
DefaultCores ==
    { <<"g","e","t","d","a","t","e","(",")">>,
      <<"G","E","T","D","A","T","E","(",")">>,
      <<"G","e","t","U","t","c","D","a","t","e","(",")">>,
      <<"n","e","w","i","d","(",")">>,
      <<"U","S","E","R","_","N","A","M","E","(",")">>,
      <<"s","y","s","t","e","m","_","u","s","e","r">>,
      <<"S","Y","S","T","E","M","_","U","S","E","R">>,
      <<"1","0","0">>,
      <<"'","a","'">>,
      <<"N","'","(","x",")","'">>,
      <<"a","b","s","(","(","1",")",")">>,
      <<"(","1",")","+","(","2",")">>,
      <<"g","e","t","d","a","t","e">>,
      <<"g","e","t","d","a","t","e","(",")","+","1">>,
      <<"g","e","t","u","t","c","d","a","t","e","(",")">>,
      <<"N","E","W","I","D","(",")">>,
      <<"u","s","e","r","_","n","a","m","e","(",")">>,
      <<"s","u","s","e","r","_","s","n","a","m","e","(",")">>,
      <<"0">>,
      <<"'","'">> }

RECURSIVE Wrap(_, _)
Wrap(s, k) ==
    IF k = 0 THEN s ELSE <<"(">> \o Wrap(s, k - 1) \o <<")">>

DefaultInputs ==
    { None } \cup { Some(Wrap(c, k)) : c \in DefaultCores, k \in 0..MaxWrap }
             \cup { Some(<<>>) }

\* the variables of the run, in a specification that starts no run
NoRun ==
    /\ pc = "idle"
    /\ dry_run = FALSE
    /\ batch_size = 1
    /\ source = <<>>
    /\ source_views = <<>>
    /\ metadata = None
    /\ converted_schema = None
    /\ table_i = 1
    /\ generator = None
    /\ data_batch = None
    /\ converted_data = None
    /\ calls = <<>>
    /\ audit_data = <<>>
    /\ audit_file = <<>>
    /\ clock = 0
    /\ exc = None
    /\ exit_status = None
    /\ target = <<>>
    /\ perf_report = None

\* the variables of _convert_indexes, where it is not called
NoIndexes ==
    /\ indexes = <<>>
    /\ idx_i = 1
    /\ converted_indexes = <<>>
    /\ idx_pc = "idle"

\* the variables of _convert_tsql_to_pgsql, where it is not called
NoTsql ==
    /\ tsql = <<>>
    /\ result = <<>>
    /\ rule_i = 1
    /\ tsql_pc = "idle"

\* the variables of convert_batch, where it is not called on its own
NoFrame ==
    /\ df = None
    /\ converted_batch = None
    /\ df_pc = "idle"

\* the variables of _convert_default_value, where it is not called
NoDefault ==
    /\ def_in = None
    /\ def_out = None
    /\ def_pc = "idle"

\* the variables of the column loop, where it is not run
NoColumns ==
    /\ columns = <<>>
    /\ col_i = 1
    /\ converted_columns = <<>>
    /\ warnings = <<>>
    /\ col_pc = "idle"

----------------------------------------------------------------------------
(* _convert_default_value applied to one default expression *)

InitDefault ==
    /\ def_in \in DefaultInputs
    /\ def_out = None
    /\ def_pc = "call"
    /\ columns = <<>>
    /\ col_i = 1
    /\ converted_columns = <<>>
    /\ warnings = <<>>
    /\ col_pc = "idle"
    /\ NoRun
    /\ NoIndexes
    /\ NoTsql
    /\ NoFrame

ConvertDefault ==
    /\ def_pc = "call"
    /\ def_out' = _convert_default_value(def_in)
    /\ def_pc' = "returned"
    /\ UNCHANGED <<def_in, col_vars, warnings, run_vars, idx_vars, tsql_vars, df_vars>>

NextDefault ==
    ConvertDefault

SpecDefault ==
    InitDefault /\ [][NextDefault]_vars

----------------------------------------------------------------------------
(* _convert_tables: the loop over the columns of one table (lines 73-75) *)

InitColumn ==
    /\ columns \in ColumnTables
    /\ col_i = 1
    /\ converted_columns = <<>>
    /\ warnings = <<>>
    /\ col_pc = "loop"
    /\ def_in = None
    /\ def_out = None
    /\ def_pc = "idle"
    /\ NoRun
    /\ NoIndexes
    /\ NoTsql
    /\ NoFrame

ConvertNextColumn ==
    /\ col_pc = "loop"
    /\ LET r == _convert_column(columns[col_i])
       IN  /\ converted_columns' = Append(converted_columns, r.column)
           /\ warnings' = warnings \o r.warned
    /\ col_i' = col_i + 1
    /\ col_pc' = IF col_i = Len(columns) THEN "returned" ELSE "loop"
    /\ UNCHANGED <<columns, def_vars, run_vars, idx_vars, tsql_vars, df_vars>>

NextColumn ==
    ConvertNextColumn

SpecColumn ==
    InitColumn /\ [][NextColumn]_vars

----------------------------------------------------------------------------
(* The source database and the extractor *)

TableKey(schema, name) ==
    <<schema, name>>

SourceColumnLists ==
    { << Column("Id", <<"i","n","t">>, <<None, None, None>>, None, 1),
         Column("Name", <<"N","V","a","r","C","h","a","r">>,
                <<Some(MaxLength), None, None>>,
                Some(<<"(","1","0","0",")">>), 2) >>,
      << Column("Shape", <<"g","e","o","g","r","a","p","h","y">>,
                <<Some(-1), None, None>>, None, 1) >> }

\* a row of sys.indexes with its rows of sys.index_columns
SourceIndex(name, unique, pk, cols) ==
    [name |-> name, type_desc |-> IF pk THEN "CLUSTERED" ELSE "NONCLUSTERED",
     is_unique |-> unique, is_primary_key |-> pk, columns |-> cols]

\* the key columns of an index, by key_ordinal
KeyColumns(names) ==
    [k \in 1..Len(names) |-> [name |-> names[k], ordinal |-> k, descending |-> FALSE]]

\* the indexes of a table of the run: a table with an Id column has its
\* primary key on Id and an index on its second column, another table is a heap
IndexesOn(cols) ==
    IF cols[1].name = "Id"
    THEN << SourceIndex("PK", TRUE, TRUE, KeyColumns(<<"Id">>)),
            SourceIndex("IX", FALSE, FALSE, KeyColumns(<<cols[2].name>>)) >>
    ELSE <<>>

SourceTable(name, cols, n) ==
    [key |-> TableKey("dbo", name), schema |-> "dbo", name |-> name,
     columns |-> cols, row_count |-> n, indexes |-> IndexesOn(cols)]

SourceTablesNamed(name) ==
    { SourceTable(name, cols, n) : cols \in SourceColumnLists, n \in 0..MaxRows }

\* the source databases: no table, one table, or two, in (schema, name) order
SourceDatabases ==
    { <<>> } \cup { <<a>> : a \in SourceTablesNamed("A") }
             \cup { <<b>> : b \in SourceTablesNamed("B") }
             \cup { <<a, b>> : a \in SourceTablesNamed("A"),
                               b \in SourceTablesNamed("B") }

\* the views of the source database: none, or one view over table A
SourceViewSets ==
    { <<>>,
      << [schema |-> "dbo", name |-> "V",
          definition |-> <<"S","E","L","E","C","T"," ","I","S","N","U","L","L","(",
                           "[","N","a","m","e","]",","," ","0",")",
                           " ","F","R","O","M"," ","[","A","]">>] >> }

\* the rows of the query of lines 123-139 before its ORDER BY: one row for
\* each key column of each index of each table; object_id tells the tables
\* apart inside the join and is not among the selected columns
IndexRows ==
    UNION { UNION { { [object_id |-> t, index_name |-> source[t].indexes[x].name,
                       table_name |-> source[t].name,
                       type_desc |-> source[t].indexes[x].type_desc,
                       is_unique |-> source[t].indexes[x].is_unique,
                       is_primary_key |-> source[t].indexes[x].is_primary_key,
                       column_name |-> source[t].indexes[x].columns[k].name,
                       key_ordinal |-> source[t].indexes[x].columns[k].ordinal,
                       is_descending_key |-> source[t].indexes[x].columns[k].descending] :
                      k \in 1..Len(source[t].indexes[x].columns) } :
                    x \in 1..Len(source[t].indexes) } :
            t \in 1..Len(source) }

\* the collation order of the table and index names of the model
SortedNames ==
    <<"A", "B", "IX", "PK">>

NameRank(n) ==
    CHOOSE i \in 1..Len(SortedNames) : SortedNames[i] = n

\* row a sorts before row b under ORDER BY t.name, i.name, ic.key_ordinal
SortsBefore(a, b) ==
    \/ NameRank(a.table_name) < NameRank(b.table_name)
    \/ /\ a.table_name = b.table_name
       /\ \/ NameRank(a.index_name) < NameRank(b.index_name)
          \/ /\ a.index_name = b.index_name
             /\ a.key_ordinal < b.key_ordinal

\* every order in which the server may return the rows: rows that tie under
\* the ORDER BY come in any order
RECURSIVE SortedRowSeqs(_)
SortedRowSeqs(rows) ==
    IF rows = {}
    THEN { <<>> }
    ELSE UNION { { <<r>> \o rest : rest \in SortedRowSeqs(rows \ {r}) } :
                 r \in { m \in rows : \A o \in rows : ~SortsBefore(o, m) } }

\* _extract_tables, lines 73-95: the tables map in query order, keyed by
\* f"{TABLE_SCHEMA}.{TABLE_NAME}"
_extract_tables ==
    [i \in 1..Len(source) |->
        [key |-> source[i].key, schema |-> source[i].schema,
         name |-> source[i].name, columns |-> source[i].columns]]

\* _extract_views, lines 110-119
_extract_views ==
    [i \in 1..Len(source_views) |->
        [key |-> TableKey(source_views[i].schema, source_views[i].name),
         schema |-> source_views[i].schema, name |-> source_views[i].name,
         definition |-> source_views[i].definition]]

\* _extract_indexes, lines 144-163, on the rows of the query in the order the
\* server returned them: the entry of f"{table_name}.{index_name}" is made by
\* the first row that has this key, and every row appends its column to it
RECURSIVE _extract_indexes(_)
_extract_indexes(rows) ==
    IF rows = <<>>
    THEN <<>>
    ELSE LET row == rows[Len(rows)]
             before == _extract_indexes(SubSeq(rows, 1, Len(rows) - 1))
             index_key == <<row.table_name, row.index_name>>
             indexes_ == IF \E i \in 1..Len(before) : before[i].key = index_key
                         THEN before
                         ELSE Append(before,
                                     [key |-> index_key, name |-> row.index_name,
                                      table |-> <<row.table_name>>,
                                      type |-> row.type_desc,
                                      is_unique |-> row.is_unique,
                                      is_primary_key |-> row.is_primary_key,
                                      columns |-> <<>>])
         IN  [i \in 1..Len(indexes_) |->
                IF indexes_[i].key = index_key
                THEN [indexes_[i] EXCEPT
                        !.columns = Append(@, [name |-> row.column_name,
                                               ordinal |-> row.key_ordinal,
                                               descending |-> row.is_descending_key])]
                ELSE indexes_[i]]

\* SqlServerExtractor.extract_metadata on the source database, the index
\* query having returned index_rows
extract_metadata(index_rows) ==
    [tables |-> _extract_tables,
     views |-> _extract_views,
     indexes |-> _extract_indexes(index_rows),
     constraints |-> <<>>]

\* SELECT COUNT(*) FROM table
CountRows(key) ==
    source[CHOOSE i \in 1..Len(source) : source[i].key = key].row_count

\* a Python value of a DataFrame cell: its type and its str() rendering
PyValue(kind, repr) ==
    [kind |-> kind, repr |-> repr]

NoneV ==
    PyValue("NoneType", <<"N","o","n","e">>)

StrV(s) ==
    PyValue("str", s)

IntV(n) ==
    PyValue("int", Str(n))

BytesV ==
    PyValue("bytes", <<"b","'","\\","x","0","1","'">>)

\* the value pyodbc returns for row r of a column: integers count the rows,
\* character columns hold a text on odd rows and NULL on even rows, any other
\* type arrives as bytes
CellValue(column, r) ==
    LET t == Lower(column.data_type)
    IN  IF t = <<"i","n","t">> THEN IntV(r)
        ELSE IF t \in { <<"n","v","a","r","c","h","a","r">>,
                        <<"v","a","r","c","h","a","r">> }
             THEN IF r % 2 = 1 THEN StrV(<<"a">>) ELSE NoneV
             ELSE BytesV

\* the dtype pandas infers for a column of a query result
InferDtype(values) ==
    IF values # <<>> /\ \A r \in 1..Len(values) : values[r].kind = "int"
    THEN "int64"
    ELSE "object"

\* the DataFrame of one page: OFFSET offset ROWS FETCH NEXT size ROWS ONLY;
\* `rows` are the positions of the page's rows in the table, `table` is the
\* table the page was read from
ReadBatch(key, offset, size) ==
    LET total == CountRows(key)
        n == IF offset + size <= total THEN size ELSE total - offset
        cols == source[CHOOSE i \in 1..Len(source) : source[i].key = key].columns
    IN  [table |-> key, rows |-> [i \in 1..n |-> offset + i],
         columns |-> [j \in 1..Len(cols) |->
                        LET values == [i \in 1..n |-> CellValue(cols[j], offset + i)]
                        IN  [name |-> cols[j].name, dtype |-> InferDtype(values),
                             values |-> values]]]

----------------------------------------------------------------------------
(* _convert_indexes: the loop over the items of one index dict             *)
(* (schema_converter.py lines 173-189).  A dict is the sequence of its     *)
(* entries in insertion order, each entry carrying its key.  A name built  *)
(* by an f-string "{a}.{b}" is the sequence of its dot-separated parts.    *)

MaxIdx == 2         \* entries of the index dict handed to _convert_indexes

IndexTableNames ==
    {"A", "B"}

IndexNames ==
    {"IX", "PK"}

\* the `columns` list of an index: (name, key ordinal, descending flag)
IndexColumnLists ==
    { << [name |-> "c1", ordinal |-> 1, descending |-> FALSE] >>,
      << [name |-> "c2", ordinal |-> 1, descending |-> TRUE] >>,
      << [name |-> "c1", ordinal |-> 1, descending |-> FALSE],
         [name |-> "c2", ordinal |-> 2, descending |-> FALSE] >> }

\* one entry of the index dict, as _extract_indexes builds it (lines 146-155)
IndexInfo(t, n, unique, pk, cols) ==
    [key |-> <<t, n>>, name |-> n, table |-> <<t>>,
     type |-> IF pk THEN "CLUSTERED" ELSE "NONCLUSTERED",
     is_unique |-> unique, is_primary_key |-> pk, columns |-> cols]

IndexInfos ==
    { IndexInfo(t, n, u, pk, cols) :
        t \in IndexTableNames, n \in IndexNames, u \in BOOLEAN, pk \in BOOLEAN,
        cols \in IndexColumnLists }

\* the position of an index key in the ORDER BY t.name, i.name of the query
IndexKeyRank(key) ==
    (IF key[1] = "A" THEN 0 ELSE 2) + (IF key[2] = "IX" THEN 1 ELSE 2)

\* the index dicts: up to MaxIdx entries with distinct keys, in query order
IndexDicts ==
    { d \in UNION { [1..k -> IndexInfos] : k \in 0..MaxIdx } :
        \A i \in 1..(Len(d) - 1) :
            IndexKeyRank(d[i].key) < IndexKeyRank(d[i + 1].key) }

\* a slip: the primary-key test of lines 178-179 left out
_skips_index_never(index_info) ==
    FALSE

\* lines 178-179: `if index_info['is_primary_key']: continue`
_skips_index(index_info) ==
    index_info.is_primary_key

\* lines 181-186: the converted entry, stored under the same key
_convert_index(index_info) ==
    [key |-> index_info.key, name |-> index_info.name, table |-> index_info.table,
     is_unique |-> index_info.is_unique, columns |-> index_info.columns]

\* converted_indexes[index_key] = entry: replaces the entry of that key if
\* there is one, else appends
SetItem(d, entry) ==
    IF \E i \in 1..Len(d) : d[i].key = entry.key
    THEN [i \in 1..Len(d) |-> IF d[i].key = entry.key THEN entry ELSE d[i]]
    ELSE Append(d, entry)

\* the whole function, as convert() calls it
RECURSIVE _convert_indexes(_)
_convert_indexes(d) ==
    IF d = <<>>
    THEN <<>>
    ELSE LET rest == _convert_indexes(SubSeq(d, 1, Len(d) - 1))
             last == d[Len(d)]
         IN  IF _skips_index(last) THEN rest ELSE SetItem(rest, _convert_index(last))

InitIndexes ==
    /\ indexes \in IndexDicts
    /\ idx_i = 1
    /\ converted_indexes = <<>>
    /\ idx_pc = "loop"
    /\ NoDefault
    /\ NoColumns
    /\ NoRun
    /\ NoTsql
    /\ NoFrame

\* one iteration of the for loop of line 177
ConvertNextIndex ==
    /\ idx_pc = "loop"
    /\ idx_i <= Len(indexes)
    /\ converted_indexes' =
         IF _skips_index(indexes[idx_i])
         THEN converted_indexes
         ELSE SetItem(converted_indexes, _convert_index(indexes[idx_i]))
    /\ idx_i' = idx_i + 1
    /\ UNCHANGED <<indexes, idx_pc, def_vars, col_vars, warnings, run_vars,
                   tsql_vars, df_vars>>

\* line 189: the loop is over, the dict is returned
ReturnIndexes ==
    /\ idx_pc = "loop"
    /\ idx_i > Len(indexes)
    /\ idx_pc' = "returned"
    /\ UNCHANGED <<indexes, idx_i, converted_indexes, def_vars, col_vars, warnings,
                   run_vars, tsql_vars, df_vars>>

NextIndexes ==
    \/ ConvertNextIndex
    \/ ReturnIndexes

SpecIndexes ==
    InitIndexes /\ [][NextIndexes]_vars

\* C11: when _convert_indexes has returned, no entry of the converted index
\* set comes from an input index whose is_primary_key flag is set, and every
\* input index whose flag is not set has exactly one converted entry, under
\* the same key, with the same name, table, uniqueness flag and columns.
C11_PrimaryKeyIndexesExcluded ==
    idx_pc = "returned" =>
        /\ \A j \in 1..Len(converted_indexes) :
              \A i \in 1..Len(indexes) :
                  indexes[i].key = converted_indexes[j].key
                      => ~indexes[i].is_primary_key
        /\ \A j \in 1..Len(converted_indexes) :
              \E i \in 1..Len(indexes) : indexes[i].key = converted_indexes[j].key
        /\ \A i \in 1..Len(indexes) :
              ~indexes[i].is_primary_key =>
                  /\ Cardinality({ j \in 1..Len(converted_indexes) :
                                     converted_indexes[j].key = indexes[i].key }) = 1
                  /\ \E j \in 1..Len(converted_indexes) :
                        /\ converted_indexes[j].key = indexes[i].key
                        /\ converted_indexes[j].name = indexes[i].name
                        /\ converted_indexes[j].table = indexes[i].table
                        /\ converted_indexes[j].is_unique = indexes[i].is_unique
                        /\ converted_indexes[j].columns = indexes[i].columns
        /\ converted_indexes = _convert_indexes(indexes)

\* C11 witness: the function has returned on a dict that holds a
\* primary-key index and another index, and kept only the other one
C11_Witness ==
    /\ idx_pc = "returned"
    /\ Len(indexes) = 2
    /\ \E i \in 1..2 : indexes[i].is_primary_key
    /\ \E i \in 1..2 : ~indexes[i].is_primary_key
    /\ Len(converted_indexes) = 1

----------------------------------------------------------------------------
(* _convert_tsql_to_pgsql: the five re.sub calls of lines 158-169, applied *)
(* in list order, each to the result of the one before.  re.sub replaces   *)
(* the leftmost non-overlapping matches in one left-to-right scan.         *)

MaxFrag == 3        \* fragments concatenated into a view body

\* \w restricted to ASCII: letters, digits and the underscore
IsWordChar(c) ==
    \/ \E i \in 1..26 : UpperChars[i] = c \/ LowerChars[i] = c
    \/ \E i \in 1..10 : DigitChars[i] = c
    \/ c = "_"

\* the literal `lit` stands at position i of s, letter case ignored
\* (flags=re.IGNORECASE)
LiteralAt(lit, s, i) ==
    /\ i + Len(lit) - 1 <= Len(s)
    /\ \A j \in 1..Len(lit) : UpperChar(s[i + j - 1]) = UpperChar(lit[j])

\* first position at or after i whose character satisfies no class test
\* below, or Len(s) + 1
RECURSIVE EndOfWord(_, _)
EndOfWord(s, i) ==
    IF i <= Len(s) /\ IsWordChar(s[i]) THEN EndOfWord(s, i + 1) ELSE i

\* first position at or after i that holds character c, or Len(s) + 1
RECURSIVE FirstOf(_, _, _)
FirstOf(c, s, i) ==
    IF i <= Len(s) /\ s[i] # c THEN FirstOf(c, s, i + 1) ELSE i

kw_ISNULL ==
    <<"I","S","N","U","L","L","(">>

kw_LEN ==
    <<"L","E","N","(">>

kw_DATEPART ==
    <<"D","A","T","E","P","A","R","T","(">>

kw_GETDATE ==
    <<"G","E","T","D","A","T","E","(",")">>

\* the position of the last character of the match of pattern k that starts
\* at position i of s, or 0 when pattern k does not match there
MatchEnd(k, s, i) ==
    CASE k = 1 ->    \* \[(\w+)\]
           LET e == EndOfWord(s, i + 1)
           IN  IF s[i] = "[" /\ e > i + 1 /\ e <= Len(s) /\ s[e] = "]"
               THEN e ELSE 0
      [] k = 2 ->    \* ISNULL\(([^,]+),([^)]+)\)
           LET a == i + Len(kw_ISNULL)
               c == FirstOf(",", s, a)
               p == FirstOf(")", s, c + 1)
           IN  IF LiteralAt(kw_ISNULL, s, i) /\ c > a /\ c <= Len(s)
                  /\ p > c + 1 /\ p <= Len(s)
               THEN p ELSE 0
      [] k = 3 ->    \* LEN\(
           IF LiteralAt(kw_LEN, s, i) THEN i + Len(kw_LEN) - 1 ELSE 0
      [] k = 4 ->    \* DATEPART\(
           IF LiteralAt(kw_DATEPART, s, i) THEN i + Len(kw_DATEPART) - 1 ELSE 0
      [] k = 5 ->    \* GETDATE\(\)
           IF LiteralAt(kw_GETDATE, s, i) THEN i + Len(kw_GETDATE) - 1 ELSE 0

\* the replacement of pattern k for the match s[i..e]
Replacement(k, s, i, e) ==
    CASE k = 1 ->    \* "\1"
           <<"\"">> \o SubSeq(s, i + 1, e - 1) \o <<"\"">>
      [] k = 2 ->    \* COALESCE(\1,\2)
           <<"C","O","A","L","E","S","C","E","(">>
               \o SubSeq(s, i + Len(kw_ISNULL), e)
      [] k = 3 ->    \* LENGTH(
           <<"L","E","N","G","T","H","(">>
      [] k = 4 ->    \* EXTRACT(
           <<"E","X","T","R","A","C","T","(">>
      [] k = 5 ->    \* CURRENT_TIMESTAMP
           <<"C","U","R","R","E","N","T","_","T","I","M","E","S","T","A","M","P">>

\* the scan of re.sub from position i on
RECURSIVE Scan(_, _, _)
Scan(k, s, i) ==
    IF i > Len(s)
    THEN <<>>
    ELSE LET e == MatchEnd(k, s, i)
         IN  IF e # 0
             THEN Replacement(k, s, i, e) \o Scan(k, s, e + 1)
             ELSE <<s[i]>> \o Scan(k, s, i + 1)

\* the scan stopped after the first match (count=1)
RECURSIVE ScanOnce(_, _, _)
ScanOnce(k, s, i) ==
    IF i > Len(s)
    THEN <<>>
    ELSE LET e == MatchEnd(k, s, i)
         IN  IF e # 0
             THEN Replacement(k, s, i, e) \o SubSeq(s, e + 1, Len(s))
             ELSE <<s[i]>> \o ScanOnce(k, s, i + 1)

\* a slip: only the first match of each pattern is rewritten
re_sub_first_only(k, s) ==
    ScanOnce(k, s, 1)

\* re.sub(pattern, replacement, result, flags=re.IGNORECASE) for the k-th
\* entry of the `conversions` list of lines 158-164
re_sub(k, s) ==
    Scan(k, s, 1)

\* the number of entries of the `conversions` list
RuleCount ==
    5

\* the result after the first n rules, each applied to the output of the
\* rule before it
RECURSIVE ApplyRules(_, _)
ApplyRules(n, s) ==
    IF n = 0 THEN s ELSE re_sub(n, ApplyRules(n - 1, s))

_convert_tsql_to_pgsql(s) ==
    ApplyRules(RuleCount, s)

\* pieces of view bodies
f_Amount == <<"[","A","m","o","u","n","t","]">>
f_Zero == <<","," ","0",")">>
f_getdate == <<"g","e","t","d","a","t","e","(",")">>
f_Spaced == <<"[","a"," ","b","]">>
f_Close == <<")">>
f_SELECT == <<"S","E","L","E","C","T"," ">>
f_FROM == <<" ","F","R","O","M"," ","[","T","]">>
f_A == <<"a",","," ">>

Fragments ==
    { kw_ISNULL, f_Amount, f_Zero, kw_LEN, kw_DATEPART, f_getdate, f_Spaced }

\* the example of the specification, the same inside a SELECT, and the same
\* as second argument of another ISNULL
ExampleBody ==
    kw_ISNULL \o f_Amount \o f_Zero

ExampleView ==
    f_SELECT \o ExampleBody \o f_FROM

NestedBody ==
    kw_ISNULL \o f_A \o ExampleBody \o f_Close

TsqlInputs ==
    { Flatten(fs) : fs \in UNION { [1..k -> Fragments] : k \in 0..MaxFrag } }
        \cup { ExampleView, NestedBody }

InitTsql ==
    /\ tsql \in TsqlInputs
    /\ result = tsql
    /\ rule_i = 1
    /\ tsql_pc = "loop"
    /\ NoDefault
    /\ NoColumns
    /\ NoRun
    /\ NoIndexes
    /\ NoFrame

\* one iteration of the for loop of lines 168-169
ApplyRule ==
    /\ tsql_pc = "loop"
    /\ rule_i <= RuleCount
    /\ result' = re_sub(rule_i, result)
    /\ rule_i' = rule_i + 1
    /\ UNCHANGED <<tsql, tsql_pc, def_vars, col_vars, warnings, run_vars, idx_vars,
                   df_vars>>

\* line 171
ReturnTsql ==
    /\ tsql_pc = "loop"
    /\ rule_i > RuleCount
    /\ tsql_pc' = "returned"
    /\ UNCHANGED <<tsql, result, rule_i, def_vars, col_vars, warnings, run_vars,
                   idx_vars, df_vars>>

NextTsql ==
    \/ ApplyRule
    \/ ReturnTsql

SpecTsql ==
    InitTsql /\ [][NextTsql]_vars

\* `COALESCE("Amount", 0)`
CoalesceAmount ==
    <<"C","O","A","L","E","S","C","E","(","\"","A","m","o","u","n","t","\"",
      ","," ","0",")">>

\* position i of s starts a bracketed run of word characters
BracketIdentifierAt(s, i) ==
    /\ s[i] = "["
    /\ \E e \in (i + 2)..Len(s) :
          /\ s[e] = "]"
          /\ \A j \in (i + 1)..(e - 1) : IsWordChar(s[j])

\* s holds none of the constructs the rules are written for
HoldsNoRuleText(s) ==
    \A i \in 1..Len(s) :
        /\ ~BracketIdentifierAt(s, i)
        /\ ~LiteralAt(kw_ISNULL, s, i)
        /\ ~LiteralAt(kw_LEN, s, i)
        /\ ~LiteralAt(kw_DATEPART, s, i)
        /\ ~LiteralAt(kw_GETDATE, s, i)

\* no pattern of the list matches anywhere in s
MatchesNoRule(s) ==
    \A k \in 1..RuleCount : \A i \in 1..Len(s) : MatchEnd(k, s, i) = 0

\* C12: the rules are applied in list order (brackets, ISNULL, LEN, DATEPART,
\* GETDATE), each to the output of the one before: after n rules the result
\* is the n-fold composition on the input text.  On `ISNULL([Amount], 0)`
\* the bracket rule gives `ISNULL("Amount", 0)` first and the function returns
\* `COALESCE("Amount", 0)`, also inside a SELECT ... FROM [T].  A text that no
\* rule matches is returned unchanged.
C12_RulesInOrder ==
    /\ tsql_pc \in {"loop", "returned"} =>
          /\ rule_i \in 1..(RuleCount + 1)
          /\ result = ApplyRules(rule_i - 1, tsql)
    /\ (tsql_pc = "loop" /\ rule_i = 2 /\ tsql = ExampleBody) =>
          result = kw_ISNULL \o <<"\"","A","m","o","u","n","t","\"">> \o f_Zero
    /\ tsql_pc = "returned" =>
          /\ rule_i = RuleCount + 1
          /\ tsql = ExampleBody => result = CoalesceAmount
          /\ tsql = ExampleView =>
                result = f_SELECT \o CoalesceAmount
                           \o <<" ","F","R","O","M"," ","\"","T","\"">>
          /\ MatchesNoRule(tsql) => result = tsql
          /\ HoldsNoRuleText(tsql) => result = tsql

\* C12 witness: the function has returned `COALESCE("Amount", 0)` for the
\* example body
C12_Witness ==
    /\ tsql_pc = "returned"
    /\ tsql = ExampleBody
    /\ result = CoalesceAmount
    /\ result # tsql

----------------------------------------------------------------------------
(* SchemaConverter.convert, DataConverter.convert_batch, PerformanceAnalyzer *)

\* _convert_tables: each table with its columns converted in order
_convert_tables(tables) ==
    [i \in 1..Len(tables) |->
        [key |-> tables[i].key, schema |-> tables[i].schema, name |-> tables[i].name,
         columns |-> [j \in 1..Len(tables[i].columns) |->
                         _convert_column(tables[i].columns[j]).column]]]

\* the warnings _convert_tables logs, in the order of the calls
_convert_tables_warnings(tables) ==
    Flatten([i \in 1..Len(tables) |->
                Flatten([j \in 1..Len(tables[i].columns) |->
                            _convert_column(tables[i].columns[j]).warned])])

\* _convert_views, lines 140-154: each view under its key, its definition
\* rewritten
_convert_views(views) ==
    [i \in 1..Len(views) |->
        [key |-> views[i].key, schema |-> views[i].schema, name |-> views[i].name,
         definition |-> _convert_tsql_to_pgsql(views[i].definition)]]

\* a slip: _convert_tables stores the converted columns in the table dicts it
\* was given
_metadata_after_convert_in_place(m) ==
    [m EXCEPT !.tables = _convert_tables(m.tables)]

\* the dict handed to convert(), after the call: convert and its helpers read
\* metadata[...] and assign only into dicts and lists they created themselves
\* (converted, converted_tables, converted_table, converted_views,
\* converted_indexes), so the argument holds what it held
_metadata_after_convert(m) ==
    m

\* SchemaConverter.convert, lines 51-60; _convert_constraints returns {}
convert(m) ==
    [tables |-> _convert_tables(m.tables),
     views |-> _convert_views(m.views),
     indexes |-> _convert_indexes(m.indexes),
     constraints |-> <<>>]

\* a slip: repr() in place of str(), which quotes a text again
astype_repr(v) ==
    PyValue("str", IF v.kind = "str" THEN <<"'">> \o v.repr \o <<"'">> ELSE v.repr)

\* one element of series.astype(str): str(v), a text holding the rendering of
\* the value, whatever the value was
astype_str(v) ==
    PyValue("str", v.repr)

\* the dtypes whose name contains 'datetime' (line 45)
DatetimeDtypes ==
    {"datetime64[ns]"}

\* pd.to_datetime on a series that is already of a datetime dtype, and
\* astype(bool) on a series of dtype bool: the same values, the same dtype
to_datetime(series) ==
    series

astype_bool(series) ==
    series

\* _convert_column_data, lines 39-51
_convert_column_data(series) ==
    IF series.dtype = "object"
    THEN [series EXCEPT !.values = [r \in 1..Len(series.values) |->
                                      astype_str(series.values[r])]]
    ELSE IF series.dtype \in DatetimeDtypes
         THEN to_datetime(series)
         ELSE IF series.dtype = "bool"
              THEN astype_bool(series)
              ELSE series

\* a slip: rows holding a null are dropped from the converted batch
convert_batch_dropna(batch) ==
    LET keep == { r \in 1..Len(batch.rows) :
                    \A j \in 1..Len(batch.columns) :
                        batch.columns[j].values[r].kind # "NoneType" }
        pos == [r \in 1..Len(batch.rows) |->
                  Cardinality({ q \in keep : q <= r })]
        at(k) == CHOOSE r \in keep : pos[r] = k
    IN  [batch EXCEPT
           !.rows = [k \in 1..Cardinality(keep) |-> batch.rows[at(k)]],
           !.columns = [j \in 1..Len(batch.columns) |->
                          [_convert_column_data(batch.columns[j]) EXCEPT
                             !.values = [k \in 1..Cardinality(keep) |->
                                           _convert_column_data(batch.columns[j]).values[at(k)]]]]]

\* DataConverter.convert_batch, lines 21-31: a copy of the batch in which
\* every column is replaced by its conversion
convert_batch(batch) ==
    [batch EXCEPT !.columns = [j \in 1..Len(batch.columns) |->
                                 _convert_column_data(batch.columns[j])]]

\* PerformanceAnalyzer.generate_recommendations: fixed advisory text
generate_recommendations ==
    [vacuum_analyze |-> "Run VACUUM ANALYZE on all tables after migration",
     statistics |-> "Update table statistics for optimal query planning",
     configuration |-> <<"shared_buffers", "effective_cache_size",
                         "checkpoint_segments", "synchronous_commit">>]

----------------------------------------------------------------------------
(* MigrationLogger *)

_summarize_data(data) ==
    [table_count |-> Len(data.tables), view_count |-> Len(data.views),
     index_count |-> Len(data.indexes)]

\* the entry of log_phase; data is None or Some(schema document)
log_phase(phase, status, data) ==
    [timestamp |-> clock, phase |-> phase, status |-> status,
     data_summary |-> IF data # None THEN Some(_summarize_data(data[1])) ELSE None]

\* the entry of log_error
log_error(phase, error) ==
    [timestamp |-> clock, phase |-> phase, status |-> "error", error |-> error]

\* the entry of log_recommendations
log_recommendations(recommendations) ==
    [timestamp |-> clock, type |-> "recommendations", data |-> recommendations]

\* audit_data.append(entry) followed by _write_audit_log()
AppendAudit(entry) ==
    /\ audit_data' = Append(audit_data, entry)
    /\ audit_file' = Append(audit_data, entry)
    /\ clock' = clock + 1

----------------------------------------------------------------------------
(* main() and MigrationOrchestrator.migrate() *)

Call(obj, op, arg, raised) ==
    [obj |-> obj, op |-> op, arg |-> arg, raised |-> raised]

\* a slip: the data migration placed before the creation of the schema
Successor_reordered(p) ==
    CASE p = "phase1" -> "phase2"
      [] p = "phase2" -> "phase4"
      [] p = "phase4" -> "phase3"
      [] p = "phase3" -> "phase5"
      [] p = "phase5" -> "phase6"
      [] p = "phase6" -> "returned"

\* the statement that follows each phase of migrate(), in source order
Successor(p) ==
    CASE p = "phase1" -> "phase2"
      [] p = "phase2" -> "phase3"
      [] p = "phase3" -> "phase4"
      [] p = "phase4" -> "phase5"
      [] p = "phase5" -> "phase6"
      [] p = "phase6" -> "returned"

\* a call raised: control goes to the except clause of migrate(); the
\* exception carries its message, raised_in remembers where it was raised
Raise(op, phase) ==
    /\ exc' = Some([message |-> op, raised_in |-> phase])
    /\ pc' = "except"

\* a slip: the dry-run test left out before load_data
_skip_load_data_never ==
    FALSE

\* a slip: the dry-run test of line 164 inverted
_skip_load_data_inverted ==
    ~dry_run

\* line 164: load only when not in dry-run
_skip_load_data ==
    dry_run

\* a slip: main logs the failure and does not call sys.exit(1)
_failure_status_zero ==
    1 - 1

\* sys.exit(1) of main's except clause
_failure_status ==
    1

\* ConfigLoader._validate_config, lines 33-49: the sections source and target
\* must be there, each with its four fields; nothing else is looked at
_validate_config(config) ==
    /\ {"source", "target"} \subseteq config.sections
    /\ {"server", "database", "username", "password"} \subseteq config.source
    /\ {"host", "database", "username", "password"} \subseteq config.target

\* the configuration files: complete, or with a section or a field missing;
\* batch_size is absent or any integer the YAML file may hold
Configs ==
    { [sections |-> ss, source |-> {"server", "database", "username", "password"},
       target |-> tf, batch_size |-> b] :
        ss \in { {"source", "target"}, {"source"} },
        tf \in { {"host", "database", "username", "password"},
                 {"host", "database", "username"} },
        b \in { None } \cup { Some(n) : n \in (0 - 1)..MaxBatch } }

\* the configurations ConfigLoader.load returns
AcceptedConfigs ==
    { config \in Configs : _validate_config(config) }

\* _migrate_data line 151: self.config.get('batch_size', 10000)
_get_batch_size(config) ==
    IF config.batch_size = None THEN 10000 ELSE config.batch_size[1]

\* the server refuses a page query whose FETCH NEXT count is not positive
\* (SQL Server Msg 10744), so pd.read_sql_query raises
_fetch_refused(size) ==
    size <= 0

\* a slip: the batches are drained from the generator before any is processed
_on_yield_prefetch ==
    "resume_generator"

\* lines 159-161: each batch the generator yields enters the body of the for
\* loop, which starts with convert_batch
_on_yield ==
    "convert_batch"

\* PostgreSQLLoader._generate_table_ddl, lines 69-70 and 89-93: the relation
\* that `CREATE TABLE {schema}.{table_name}` creates, a name qualified by its
\* schema
_generate_table_ddl(table_info) ==
    [schema |-> Some(table_info.schema), name |-> <<table_info.name>>]

\* PostgreSQLLoader._generate_view_ddl, lines 100-104: the relation that
\* `CREATE VIEW {schema}.{view_name}` creates
_generate_view_ddl(view_info) ==
    [schema |-> Some(view_info.schema), name |-> <<view_info.name>>]

\* PostgreSQLLoader.create_schema, lines 50-61, when no statement raised: one
\* relation per entry of the tables map, then one per entry of the views map,
\* committed together
create_schema(db, schema_metadata) ==
    db \o [i \in 1..Len(schema_metadata.tables) |->
             [key |-> _generate_table_ddl(schema_metadata.tables[i]),
              kind |-> "table", created_by |-> "create_schema", rows |-> 0]]
       \o [i \in 1..Len(schema_metadata.views) |->
             [key |-> _generate_view_ddl(schema_metadata.views[i]),
              kind |-> "view", created_by |-> "create_schema", rows |-> 0]]

\* the relation that data.to_sql(table_name, engine, ...) of lines 140-146
\* writes to: no `schema` argument is passed, so the relation lies in the
\* default schema of the connection and the whole of table_name, dots
\* included, is its name
_to_sql_relation(table_name) ==
    [schema |-> None, name |-> table_name]

\* PostgreSQLLoader.load_data, lines 136-146, when to_sql did not raise:
\* if_exists='append' inserts the rows into the relation when it exists and
\* creates it first when it does not
load_data(db, table_name, data) ==
    LET key == _to_sql_relation(table_name)
    IN  IF \E i \in 1..Len(db) : db[i].key = key
        THEN [i \in 1..Len(db) |->
                IF db[i].key = key
                THEN [db[i] EXCEPT !.rows = @ + Len(data.rows)]
                ELSE db[i]]
        ELSE Append(db, [key |-> key, kind |-> "table", created_by |-> "load_data",
                         rows |-> Len(data.rows)])

pure_vars == <<def_vars, col_vars, idx_vars, tsql_vars, df_vars, perf_report>>

Init ==
    /\ pc = "phase1"
    /\ dry_run \in BOOLEAN
    /\ batch_size \in { _get_batch_size(config) : config \in AcceptedConfigs }
    /\ source \in SourceDatabases
    /\ source_views \in SourceViewSets
    /\ metadata = None
    /\ converted_schema = None
    /\ table_i = 1
    /\ generator = None
    /\ data_batch = None
    /\ converted_data = None
    /\ calls = <<>>
    /\ audit_data = <<>>
    /\ audit_file = <<>>
    /\ clock = 0
    /\ exc = None
    /\ exit_status = None
    /\ target = <<>>
    /\ warnings = <<>>
    /\ def_in = None
    /\ def_out = None
    /\ def_pc = "idle"
    /\ columns = <<>>
    /\ col_i = 1
    /\ converted_columns = <<>>
    /\ col_pc = "idle"
    /\ perf_report = None
    /\ NoIndexes
    /\ NoTsql
    /\ NoFrame

\* Phase 1, lines 115-117
ExtractMetadata ==
    /\ pc = "phase1"
    /\ \E raised \in BOOLEAN, index_rows \in SortedRowSeqs(IndexRows) :
         /\ calls' = Append(calls, Call("extractor", "extract_metadata", None, raised))
         /\ IF raised
            THEN /\ Raise("extract_metadata", "ExtractMetadata")
                 /\ UNCHANGED <<metadata, audit_vars>>
            ELSE /\ metadata' = Some(extract_metadata(index_rows))
                 /\ AppendAudit(log_phase("metadata_extraction", "completed",
                                          Some(extract_metadata(index_rows))))
                 /\ pc' = Successor("phase1")
                 /\ UNCHANGED exc
    /\ UNCHANGED <<cfg_vars, target, converted_schema, loop_vars, exit_status, warnings,
                   pure_vars>>

\* Phase 2, lines 120-122
ConvertSchema ==
    /\ pc = "phase2"
    /\ calls' = Append(calls, Call("schema_converter", "convert", None, FALSE))
    /\ converted_schema' = Some(convert(metadata[1]))
    /\ metadata' = Some(_metadata_after_convert(metadata[1]))
    /\ warnings' = warnings \o _convert_tables_warnings(metadata[1].tables)
    /\ AppendAudit(log_phase("schema_conversion", "completed",
                             Some(convert(metadata[1]))))
    /\ pc' = Successor("phase2")
    /\ UNCHANGED <<cfg_vars, target, loop_vars, exc, exit_status, pure_vars>>

\* Phase 3, lines 125-128
CreateSchema ==
    /\ pc = "phase3"
    /\ IF dry_run
       THEN /\ pc' = Successor("phase3")
            /\ UNCHANGED <<calls, audit_vars, exc, target>>
       ELSE \E raised \in BOOLEAN :
              /\ calls' = Append(calls, Call("loader", "create_schema", None, raised))
              /\ IF raised
                 THEN /\ Raise("create_schema", "CreateTargetSchema")
                      /\ UNCHANGED <<audit_vars, target>>
                 ELSE /\ target' = create_schema(target, converted_schema[1])
                      /\ AppendAudit(log_phase("schema_creation", "completed", None))
                      /\ pc' = Successor("phase3")
                      /\ UNCHANGED exc
    /\ UNCHANGED <<cfg_vars, metadata, converted_schema, loop_vars, exit_status,
                   warnings, pure_vars>>

\* Phase 4, line 153 and 157: the loop over the tables; extract_data returns a
\* generator whose body has not started
ForTable ==
    /\ pc = "phase4"
    /\ IF table_i <= Len(metadata[1].tables)
       THEN /\ calls' = Append(calls, Call("extractor", "extract_data",
                                           metadata[1].tables[table_i].key, FALSE))
            /\ generator' = Some([table |-> metadata[1].tables[table_i].key,
                                  batch_size |-> batch_size,
                                  offset |-> 0, total_rows |-> 0])
            /\ pc' = "start_generator"
       ELSE /\ pc' = Successor("phase4")
            /\ UNCHANGED <<calls, generator>>
    /\ UNCHANGED <<cfg_vars, target, metadata, converted_schema, table_i, data_batch,
                   converted_data, audit_vars, exc, exit_status, warnings, pure_vars>>

\* first next() on the generator: extract_data lines 187-194
StartGenerator ==
    /\ pc = "start_generator"
    /\ \E raised \in BOOLEAN :
         /\ calls' = Append(calls, Call("extractor", "count_rows",
                                        generator[1].table, raised))
         /\ IF raised
            THEN /\ Raise("extract_data", "MigrateData")
                 /\ UNCHANGED generator
            ELSE /\ generator' = Some([generator[1] EXCEPT
                                         !.total_rows = CountRows(generator[1].table),
                                         !.offset = 0])
                 /\ pc' = "while_offset"
                 /\ UNCHANGED exc
    /\ UNCHANGED <<cfg_vars, target, metadata, converted_schema, table_i, data_batch,
                   converted_data, audit_vars, exit_status, warnings, pure_vars>>

\* extract_data lines 195-204: the while test, the page query and the yield;
\* when the generator is exhausted the for loop of line 159 ends
FetchBatch ==
    /\ pc = "while_offset"
    /\ LET g == generator[1]
       IN  IF g.offset < g.total_rows
           THEN \E raised \in { r \in BOOLEAN : _fetch_refused(g.batch_size) => r } :
                  /\ calls' = Append(calls, Call("extractor", "read_batch",
                                                 <<g.table, g.offset>>, raised))
                  /\ IF raised
                     THEN /\ Raise("extract_data", "MigrateData")
                          /\ UNCHANGED data_batch
                     ELSE /\ data_batch' = Some(ReadBatch(g.table, g.offset, g.batch_size))
                          /\ pc' = _on_yield
                          /\ UNCHANGED exc
                  /\ UNCHANGED <<generator, table_i>>
           ELSE /\ generator' = None
                /\ table_i' = table_i + 1
                /\ pc' = "phase4"
                /\ UNCHANGED <<calls, data_batch, exc>>
    /\ UNCHANGED <<cfg_vars, target, metadata, converted_schema, converted_data, audit_vars,
                   exit_status, warnings, pure_vars>>

\* line 161
ConvertBatch ==
    /\ pc = "convert_batch"
    /\ \E raised \in BOOLEAN :
         /\ calls' = Append(calls, Call("data_converter", "convert_batch",
                                        data_batch[1], raised))
         /\ IF raised
            THEN /\ Raise("convert_batch", "MigrateData")
                 /\ UNCHANGED converted_data
            ELSE /\ converted_data' = Some(convert_batch(data_batch[1]))
                 /\ pc' = "load_data"
                 /\ UNCHANGED exc
    /\ UNCHANGED <<cfg_vars, target, metadata, converted_schema, table_i, generator, data_batch,
                   audit_vars, exit_status, warnings, pure_vars>>

\* lines 164-165
LoadData ==
    /\ pc = "load_data"
    /\ IF _skip_load_data
       THEN /\ pc' = "resume_generator"
            /\ UNCHANGED <<calls, exc, target>>
       ELSE \E raised \in BOOLEAN :
              /\ calls' = Append(calls, Call("loader", "load_data",
                                             converted_data[1], raised))
              /\ IF raised
                 THEN /\ Raise("load_data", "MigrateData")
                      /\ UNCHANGED target
                 ELSE /\ target' = load_data(target, metadata[1].tables[table_i].key,
                                             converted_data[1])
                      /\ pc' = "resume_generator"
                      /\ UNCHANGED exc
    /\ UNCHANGED <<cfg_vars, metadata, converted_schema, loop_vars, audit_vars,
                   exit_status, warnings, pure_vars>>

\* next() on the suspended generator: extract_data line 206
ResumeGenerator ==
    /\ pc = "resume_generator"
    /\ generator' = Some([generator[1] EXCEPT
                            !.offset = generator[1].offset + generator[1].batch_size])
    /\ pc' = "while_offset"
    /\ UNCHANGED <<cfg_vars, target, metadata, converted_schema, table_i, data_batch,
                   converted_data, calls, audit_vars, exc, exit_status, warnings,
                   pure_vars>>

\* Phase 5, lines 135-138
CreateIndexesConstraints ==
    /\ pc = "phase5"
    /\ IF dry_run
       THEN /\ pc' = Successor("phase5")
            /\ UNCHANGED <<calls, audit_vars, exc>>
       ELSE \E raised \in BOOLEAN :
              /\ calls' = Append(calls, Call("loader", "create_indexes_constraints",
                                             None, raised))
              /\ IF raised
                 THEN /\ Raise("create_indexes_constraints", "CreateIndexesConstraints")
                      /\ UNCHANGED audit_vars
                 ELSE /\ AppendAudit(log_phase("indexes_constraints", "completed", None))
                      /\ pc' = Successor("phase5")
                      /\ UNCHANGED exc
    /\ UNCHANGED <<cfg_vars, target, metadata, converted_schema, loop_vars, exit_status,
                   warnings, pure_vars>>

\* Phase 6, lines 141-143
Recommend ==
    /\ pc = "phase6"
    /\ calls' = Append(calls, Call("perf_analyzer", "generate_recommendations",
                                   None, FALSE))
    /\ AppendAudit(log_recommendations(generate_recommendations))
    /\ pc' = Successor("phase6")
    /\ UNCHANGED <<cfg_vars, target, metadata, converted_schema, loop_vars, exc, exit_status,
                   warnings, pure_vars>>

\* lines 145-147: the except clause of migrate()
HandleException ==
    /\ pc = "except"
    /\ AppendAudit(log_error("migration_failed", exc[1].message))
    /\ pc' = "raise"
    /\ UNCHANGED <<cfg_vars, target, metadata, converted_schema, loop_vars, calls, exc,
                   exit_status, warnings, pure_vars>>

\* main lines 45-47: the exception reaches main, which exits with status 1
MainExcept ==
    /\ pc = "raise"
    /\ exit_status' = Some(_failure_status)
    /\ pc' = "exited"
    /\ UNCHANGED <<cfg_vars, target, metadata, converted_schema, loop_vars, calls, audit_vars,
                   exc, warnings, pure_vars>>

\* main line 49: migrate() returned; the process ends with status 0
MainReturn ==
    /\ pc = "returned"
    /\ exit_status' = Some(0)
    /\ pc' = "exited"
    /\ UNCHANGED <<cfg_vars, target, metadata, converted_schema, loop_vars, calls, audit_vars,
                   exc, warnings, pure_vars>>

Next ==
    \/ ExtractMetadata
    \/ ConvertSchema
    \/ CreateSchema
    \/ ForTable
    \/ StartGenerator
    \/ FetchBatch
    \/ ConvertBatch
    \/ LoadData
    \/ ResumeGenerator
    \/ CreateIndexesConstraints
    \/ Recommend
    \/ HandleException
    \/ MainExcept
    \/ MainReturn

Spec ==
    Init /\ [][Next]_vars

----------------------------------------------------------------------------
(* Properties of the run of migrate() *)

\* the phase of the state machine a collaborator call belongs to
PhaseOf(call) ==
    CASE call.op = "extract_metadata" -> 1
      [] call.op = "convert" -> 2
      [] call.op = "create_schema" -> 3
      [] call.op \in {"extract_data", "count_rows", "read_batch",
                      "convert_batch", "load_data"} -> 4
      [] call.op = "create_indexes_constraints" -> 5
      [] call.op = "generate_recommendations" -> 6

CallsOf(op) ==
    { i \in 1..Len(calls) : calls[i].op = op }

Completed ==
    pc \in {"returned", "exited"} /\ exc = None

Failed ==
    \E i \in 1..Len(calls) : calls[i].raised

\* C1: in a run without dry-run, the calls never go back to an earlier phase
\* and no phase operation is made twice; when the run completes,
\* extract_metadata, convert, create_schema, create_indexes_constraints and
\* generate_recommendations have each been called exactly once, in this
\* order, with the data migration of every table between create_schema and
\* create_indexes_constraints.
C1_PhasesInOrder ==
    ~dry_run /\ pc # "idle" =>
        /\ \A i, j \in 1..Len(calls) : i < j => PhaseOf(calls[i]) <= PhaseOf(calls[j])
        /\ \A op \in {"extract_metadata", "convert", "create_schema",
                      "create_indexes_constraints", "generate_recommendations"} :
              Cardinality(CallsOf(op)) <= 1
        /\ Completed =>
              /\ \A op \in {"extract_metadata", "convert", "create_schema",
                            "create_indexes_constraints", "generate_recommendations"} :
                    Cardinality(CallsOf(op)) = 1
              /\ \A t \in 1..Len(source) :
                    Cardinality({ i \in CallsOf("extract_data") :
                                    calls[i].arg = source[t].key }) = 1
              /\ \A c \in 1..Len(calls) : ~calls[c].raised

\* a completed run without dry-run that migrated two tables and loaded batches
C1_Witness ==
    /\ pc = "exited"
    /\ exit_status = Some(0)
    /\ ~dry_run
    /\ Len(source) = 2
    /\ Cardinality(CallsOf("load_data")) >= 2
    /\ calls[Len(calls)].op = "generate_recommendations"

\* C2: in a dry run the loader is never called; when the run completes,
\* extract_metadata and convert have been called, extract_data has been
\* called for every table, and every batch the extractor returned has been
\* passed to convert_batch.
C2_DryRunNeverLoads ==
    dry_run =>
        /\ \A i \in 1..Len(calls) : calls[i].obj # "loader"
        /\ Completed =>
              /\ Cardinality(CallsOf("extract_metadata")) = 1
              /\ Cardinality(CallsOf("convert")) = 1
              /\ \A t \in 1..Len(source) :
                    \E i \in CallsOf("extract_data") : calls[i].arg = source[t].key
              /\ \A i \in CallsOf("read_batch") :
                    /\ i < Len(calls)
                    /\ calls[i + 1].op = "convert_batch"
                    /\ calls[i + 1].arg =
                          ReadBatch(calls[i].arg[1], calls[i].arg[2], batch_size)
              /\ \A t \in 1..Len(source) :
                    source[t].row_count > 0 =>
                       \E i \in CallsOf("convert_batch") :
                          calls[i].arg.table = source[t].key

\* a completed dry run over two tables in which batches were converted
C2_Witness ==
    /\ dry_run
    /\ pc = "exited"
    /\ exit_status = Some(0)
    /\ Len(source) = 2
    /\ Cardinality(CallsOf("convert_batch")) >= 2

\* C3: a call that raised is the last call of the run (nothing is called
\* after it and it is not made again); the exception is then in flight out
\* of migrate(), and the process exits with a non-zero status; a run in which
\* no call raised exits with status 0.
C3_RaiseAbortsRun ==
    /\ \A i \in 1..Len(calls) : calls[i].raised => i = Len(calls)
    /\ Failed => /\ pc \in {"except", "raise", "exited"}
                 /\ exc # None
                 /\ exc[1].raised_in =
                       <<"ExtractMetadata", "ConvertSchema", "CreateTargetSchema",
                         "MigrateData", "CreateIndexesConstraints",
                         "Recommend">>[PhaseOf(calls[Len(calls)])]
    /\ exc # None => Failed
    /\ pc = "exited" =>
          /\ exit_status # None
          /\ Failed => exit_status[1] # 0
          /\ ~Failed => exit_status[1] = 0

\* load_data raised on a later batch of a table, and the process exited with 1
C3_Witness ==
    /\ pc = "exited"
    /\ exit_status = Some(1)
    /\ calls[Len(calls)].op = "load_data"
    /\ calls[Len(calls)].raised
    /\ Cardinality(CallsOf("load_data")) >= 2
    /\ table_i <= Len(source)

\* the phases of the state machine a run executes, and the names under which
\* a phase may appear in the audit trail
ExecutedPhases ==
    IF dry_run THEN <<1, 2, 4, 6>> ELSE <<1, 2, 3, 4, 5, 6>>

PhaseNames(n) ==
    <<{"ExtractMetadata", "metadata_extraction"},
      {"ConvertSchema", "schema_conversion"},
      {"CreateTargetSchema", "schema_creation"},
      {"MigrateData", "data_migration"},
      {"CreateIndexesConstraints", "indexes_constraints"},
      {"Recommend", "recommendations"}>>[n]

IsPhaseRecord(r, n, status) ==
    /\ {"timestamp", "phase", "status"} \subseteq DOMAIN r
    /\ r.phase \in PhaseNames(n)
    /\ r.status = status

\* C4: at every point of a run the audit file holds the records appended so
\* far, and when the run completes the audit trail holds exactly one record
\* per executed phase, in phase order, each with a timestamp, the name of
\* its phase and the status 'completed'.
C4_OneRecordPerPhase ==
    /\ audit_file = audit_data
    /\ Completed =>
          /\ Len(audit_data) = Len(ExecutedPhases)
          /\ \A i \in 1..Len(audit_data) :
                i <= Len(ExecutedPhases) =>
                   IsPhaseRecord(audit_data[i], ExecutedPhases[i], "completed")

ErrorRecords ==
    { i \in 1..Len(audit_data) :
        "status" \in DOMAIN audit_data[i] /\ audit_data[i].status = "error" }

\* C5: once the except clause of migrate() has run, the audit trail holds
\* exactly one record with status 'error', it is the last record, it carries
\* the name of the phase in which the exception was raised and the message
\* of the exception, and the records before it are those of the phases that
\* completed.
C5_ErrorRecordNamesPhase ==
    pc \in {"raise", "exited"} /\ exc # None =>
        /\ ErrorRecords = { Len(audit_data) }
        /\ \A i \in ErrorRecords :
              /\ audit_data[i].error = exc[1].message
              /\ \E n \in 1..6 :
                    /\ exc[1].raised_in \in PhaseNames(n)
                    /\ audit_data[i].phase \in PhaseNames(n)

----------------------------------------------------------------------------
(* Properties of _convert_default_value *)

RECURSIVE ParenDepth(_, _)
ParenDepth(s, k) ==
    IF k = 0
    THEN 0
    ELSE ParenDepth(s, k - 1) + (IF s[k] = "(" THEN 1 ELSE IF s[k] = ")" THEN 0 - 1 ELSE 0)

\* the first character is a parenthesis that the last character closes
WrapsWhole(s) ==
    /\ Len(s) >= 2
    /\ s[1] = "("
    /\ s[Len(s)] = ")"
    /\ \A k \in 1..(Len(s) - 1) : ParenDepth(s, k) > 0

\* the expression without the parentheses that wrap the whole of it
RECURSIVE Unwrap(_)
Unwrap(s) ==
    IF WrapsWhole(s) THEN Unwrap(SubSeq(s, 2, Len(s) - 1)) ELSE s

IsAlias(s) ==
    HasKey(conversions, Lower(s))

\* C6: a default expression that is, without its wrapping parentheses and
\* whatever its letter case, one of the aliases getdate(), getutcdate(),
\* newid(), user_name(), system_user converts to the alias's target
\* expression ((getdate()) to CURRENT_TIMESTAMP); a null or empty default
\* converts to None.
C6_AliasesTranslated ==
    def_pc = "returned" =>
        /\ ~TruthyStr(def_in) => def_out = None
        /\ TruthyStr(def_in) /\ IsAlias(Unwrap(def_in[1])) =>
              def_out = Some(Get(conversions, Lower(Unwrap(def_in[1]))))

\* C7: a non-empty default expression that is no alias converts to itself
\* without the parentheses that wrap the whole of it, every other character
\* kept ((100) to 100).
C7_OthersPassThrough ==
    def_pc = "returned" /\ TruthyStr(def_in) /\ ~IsAlias(Unwrap(def_in[1])) =>
        def_out = Some(Unwrap(def_in[1]))

----------------------------------------------------------------------------
(* Properties of _convert_column *)

TypeOf(i) ==
    Lower(columns[i].data_type)

\* C8 as stated: every converted column whose max length is -1 has the type
\* TEXT, whatever its source type.
C8_AnyUnboundedIsText ==
    \A i \in 1..Len(converted_columns) :
        columns[i].max_length = Some(-1) => converted_columns[i].data_type = <<"TEXT">>

\* C8 as amended: every converted column of a character type (char, varchar,
\* nchar, nvarchar, in any letter case) whose max length is -1 has the type
\* TEXT with no length suffix, whichever of CHAR and VARCHAR its type maps to.
C8_UnboundedCharIsText ==
    \A i \in 1..Len(converted_columns) :
        columns[i].max_length = Some(-1) /\ TypeOf(i) \in CharacterTypes =>
            converted_columns[i].data_type = <<"TEXT">>

\* a column of type NCHAR (upper case, mapped to CHAR) with max length -1 has
\* been converted to TEXT
C8_Witness ==
    /\ col_pc = "returned"
    /\ columns[1].data_type = <<"N","C","H","A","R">>
    /\ columns[1].max_length = Some(-1)
    /\ converted_columns[1].data_type = <<"TEXT">>

\* C9: a converted decimal or numeric column with a precision p has the type
\* <mapped>(p,s) when its scale s is not null, zero included, and
\* <mapped>(p) exactly when its scale is null.
C9_ScaleWheneverPresent ==
    \A i \in 1..Len(converted_columns) :
        TypeOf(i) \in DecimalTypes /\ columns[i].precision # None =>
            converted_columns[i].data_type =
                IF columns[i].scale # None
                THEN Get(data_type_mapping, TypeOf(i)) \o <<"(">>
                        \o Str(columns[i].precision[1]) \o <<",">>
                        \o Str(columns[i].scale[1]) \o <<")">>
                ELSE Get(data_type_mapping, TypeOf(i)) \o <<"(">>
                        \o Str(columns[i].precision[1]) \o <<")">>

UnknownTypes(n) ==
    { i \in 1..n : ~HasKey(data_type_mapping, TypeOf(i)) }

\* C10: the loop converts every column it has passed, whatever the letter
\* case of the type name: a name in the mapping gives the mapped type (with
\* the suffix of its length or precision, or TEXT for an unbounded character
\* type) and no warning, a name not in the mapping gives TEXT and exactly
\* one warning naming it, and the loop goes on to the remaining columns and
\* returns once all are converted.
C10_TotalWithFallback ==
    col_pc # "idle" =>
        /\ Len(converted_columns) = col_i - 1
        /\ (col_pc = "returned") = (Len(converted_columns) = Len(columns))
        /\ \A i \in 1..Len(converted_columns) :
              /\ converted_columns[i].name = columns[i].name
              /\ IF HasKey(data_type_mapping, TypeOf(i))
                 THEN \/ converted_columns[i].data_type[1] =
                            Get(data_type_mapping, TypeOf(i))[1]
                      \/ /\ TypeOf(i) \in CharacterTypes
                         /\ columns[i].max_length = Some(-1)
                         /\ converted_columns[i].data_type = <<"TEXT">>
                 ELSE converted_columns[i].data_type = <<"TEXT">>
        /\ Len(warnings) = Cardinality(UnknownTypes(Len(converted_columns)))
        /\ \A w \in 1..Len(warnings) :
              \E i \in UnknownTypes(Len(converted_columns)) : warnings[w] = TypeOf(i)

\* a table whose first column has an unmapped type and whose second column
\* has a mapped type written in mixed case has been converted
C10_Witness ==
    /\ col_pc = "returned"
    /\ Len(columns) = 2
    /\ columns[1].data_type = <<"H","I","E","R","A","R","C","H","Y","I","D">>
    /\ columns[2].data_type = <<"N","V","a","r","C","h","a","r">>
    /\ Len(warnings) = 1
    /\ converted_columns[1].data_type = <<"TEXT">>
    /\ converted_columns[2].data_type[1] = "VARCHAR"

----------------------------------------------------------------------------
(* convert_batch applied to one DataFrame, and once more to its own output *)

MaxFrameRows == 2   \* rows of the DataFrame handed to convert_batch

DateV ==
    PyValue("date", <<"2","0","2","4","-","0","1","-","3","1">>)

TimestampV ==
    PyValue("Timestamp", <<"2","0","2","4","-","0","1","-","3","1"," ",
                           "0","0",":","0","0",":","0","0">>)

NaTV ==
    PyValue("NaTType", <<"N","a","T">>)

FloatV ==
    PyValue("float", <<"1",".","5">>)

NaNV ==
    PyValue("float", <<"n","a","n">>)

BoolV(b) ==
    PyValue("bool", IF b THEN <<"T","r","u","e">> ELSE <<"F","a","l","s","e">>)

\* what a column of dtype object holds: texts, NULLs, datetime.date objects
ObjectValues ==
    { StrV(<<"a">>), NoneV, DateV }

\* the columns of n rows a query result can hold: every object column over
\* ObjectValues, and one column of each other dtype
SampleSeries(n) ==
    { [dtype |-> "object", values |-> v] : v \in [1..n -> ObjectValues] }
      \cup { [dtype |-> "int64", values |-> [r \in 1..n |-> IntV(r)]],
             [dtype |-> "float64",
              values |-> [r \in 1..n |-> IF r % 2 = 1 THEN FloatV ELSE NaNV]],
             [dtype |-> "bool", values |-> [r \in 1..n |-> BoolV(r % 2 = 1)]],
             [dtype |-> "datetime64[ns]",
              values |-> [r \in 1..n |-> IF r % 2 = 1 THEN TimestampV ELSE NaTV]] }

\* the DataFrames of n rows and one or two columns, read from table dbo.A
SampleFrames(n) ==
    { [table |-> TableKey("dbo", "A"), rows |-> [r \in 1..n |-> r],
       columns |-> [j \in 1..Len(ss) |->
                      [name |-> ColumnNames[j], dtype |-> ss[j].dtype,
                       values |-> ss[j].values]]] :
        ss \in [1..1 -> SampleSeries(n)] \cup [1..2 -> SampleSeries(n)] }

InputFrames ==
    UNION { SampleFrames(n) : n \in 1..MaxFrameRows }

InitFrame ==
    /\ df \in { Some(f) : f \in InputFrames }
    /\ converted_batch = None
    /\ df_pc = "call"
    /\ NoDefault
    /\ NoColumns
    /\ NoRun
    /\ NoIndexes
    /\ NoTsql

\* converted = convert_batch(df, table_name)
ConvertFrame ==
    /\ df_pc = "call"
    /\ converted_batch' = Some(convert_batch(df[1]))
    /\ df_pc' = "returned"
    /\ UNCHANGED <<df, def_vars, col_vars, warnings, run_vars, idx_vars, tsql_vars>>

\* converted = convert_batch(converted, table_name)
ConvertFrameAgain ==
    /\ df_pc = "returned"
    /\ converted_batch' = Some(convert_batch(converted_batch[1]))
    /\ df_pc' = "reconverted"
    /\ UNCHANGED <<df, def_vars, col_vars, warnings, run_vars, idx_vars, tsql_vars>>

NextFrame ==
    \/ ConvertFrame
    \/ ConvertFrameAgain

SpecFrame ==
    InitFrame /\ [][NextFrame]_vars

\* C13: the batch convert_batch returns has the rows of its input, as many
\* and in the same order (the same row positions, and in every column as many
\* values, each rendering as the input value of the same row does), and the
\* same columns by name in the same order.
C13_RowsAndColumnsKept ==
    df_pc = "returned" =>
        LET given == df[1]
            out == converted_batch[1]
        IN  /\ Len(out.rows) = Len(given.rows)
            /\ out.rows = given.rows
            /\ Len(out.columns) = Len(given.columns)
            /\ \A j \in 1..Len(given.columns) :
                  /\ out.columns[j].name = given.columns[j].name
                  /\ Len(out.columns[j].values) = Len(given.rows)
                  /\ \A r \in 1..Len(given.rows) :
                        out.columns[j].values[r].repr = given.columns[j].values[r].repr

\* C13 witness: a batch of two rows and two columns has been converted, and
\* the conversion changed a value
C13_Witness ==
    /\ df_pc = "returned"
    /\ Len(df[1].rows) = 2
    /\ Len(df[1].columns) = 2
    /\ Len(converted_batch[1].rows) = 2
    /\ converted_batch[1] # df[1]
    /\ \E j \in 1..2 : \E r \in 1..2 : df[1].columns[j].values[r] = NoneV

\* C14: convert_batch applied to its own output returns that output.
C14_Idempotent ==
    /\ df_pc = "returned" =>
          convert_batch(converted_batch[1]) = converted_batch[1]
    /\ df_pc = "reconverted" =>
          converted_batch[1] = convert_batch(df[1])

\* C14 witness: the second application has run on a batch that the first
\* application had changed
C14_Witness ==
    /\ df_pc = "reconverted"
    /\ converted_batch[1] # df[1]
    /\ \E j \in 1..Len(df[1].columns) : \E r \in 1..Len(df[1].rows) :
          df[1].columns[j].values[r].kind = "str"

\* the kinds of value the conversion is about: texts, dates and times, booleans
ConvertedKinds ==
    {"str", "date", "Timestamp", "NaTType", "bool"}

\* C19: in the batch convert_batch returns, every value that is not a text, a
\* date or time, or a boolean (a null, a number) is the value of the input
\* batch at the same row and column.
C19_OthersPassThrough ==
    df_pc = "returned" =>
        \A j \in 1..Len(df[1].columns) : \A r \in 1..Len(df[1].rows) :
            df[1].columns[j].values[r].kind \notin ConvertedKinds =>
                converted_batch[1].columns[j].values[r] = df[1].columns[j].values[r]

----------------------------------------------------------------------------
(* PerformanceAnalyzer.analyze_schema and the run of analyze()             *)
(* (main.py lines 91-107): extract_metadata, then the two analyzers.  The  *)
(* compatibility report is a local that analyze() only hands to            *)
(* _generate_analysis_report, whose body is `pass`; it is not kept.        *)

\* col.get('is_primary_key', False): the value of the key if the column dict
\* has it, else the default
_get_is_primary_key(col) ==
    IF "is_primary_key" \in DOMAIN col THEN col.is_primary_key ELSE FALSE

\* line 32: any(col.get('is_primary_key', False) for col in columns)
_has_pk(table_info) ==
    \E c \in 1..Len(table_info.columns) : _get_is_primary_key(table_info.columns[c])

\* _analyze_indexing, lines 26-42
_analyze_indexing(m) ==
    Flatten([i \in 1..Len(m.tables) |->
                IF ~_has_pk(m.tables[i])
                THEN << [type |-> "missing_primary_key", table |-> m.tables[i].key,
                         severity |-> "high",
                         recommendation |->
                             "Add a primary key or unique identifier column"] >>
                ELSE <<>>])

\* _analyze_partitioning, lines 44-65
_date_columns(table_info) ==
    SelectSeq(table_info.columns,
              LAMBDA col : Lower(col.data_type)
                             \in { <<"d","a","t","e","t","i","m","e">>,
                                   <<"d","a","t","e","t","i","m","e","2">>,
                                   <<"d","a","t","e">> })

_analyze_partitioning(m) ==
    Flatten([i \in 1..Len(m.tables) |->
                IF _date_columns(m.tables[i]) # <<>>
                THEN << [type |-> "partitioning_opportunity",
                         table |-> m.tables[i].key, severity |-> "medium",
                         recommendation |-> _date_columns(m.tables[i])[1].name] >>
                ELSE <<>>])

\* _analyze_data_types, lines 67-85
_oversized(column) ==
    /\ Lower(column.data_type) \in { <<"v","a","r","c","h","a","r">>,
                                     <<"n","v","a","r","c","h","a","r">> }
    /\ column.max_length[1] > 1000

_analyze_data_types(m) ==
    Flatten([i \in 1..Len(m.tables) |->
                Flatten([c \in 1..Len(m.tables[i].columns) |->
                            IF _oversized(m.tables[i].columns[c])
                            THEN << [type |-> "oversized_varchar",
                                     table |-> m.tables[i].key,
                                     column |-> m.tables[i].columns[c].name,
                                     severity |-> "low"] >>
                            ELSE <<>>])])

\* analyze_schema, lines 15-24; _analyze_constraints returns []
analyze_schema(m) ==
    [indexing |-> _analyze_indexing(m),
     partitioning |-> _analyze_partitioning(m),
     data_types |-> _analyze_data_types(m),
     constraints |-> <<>>]

\* the tables of the databases analyze() is run on: in two schemas, each
\* with the columns Id and Name and one of these sets of indexes
CatalogIndexSets ==
    { <<>>,
      << SourceIndex("PK", TRUE, TRUE, KeyColumns(<<"Id">>)) >>,
      << SourceIndex("IX", FALSE, FALSE, KeyColumns(<<"Name">>)) >>,
      << SourceIndex("PK", TRUE, TRUE, KeyColumns(<<"Id">>)),
         SourceIndex("IX", TRUE, FALSE, KeyColumns(<<"Name">>)) >>,
      << SourceIndex("IX", FALSE, FALSE, KeyColumns(<<"Id", "Name">>)) >> }

\* the (schema, name) pairs in the order of ORDER BY TABLE_SCHEMA, TABLE_NAME
CatalogSlots ==
    << <<"dbo", "A">>, <<"dbo", "B">>, <<"sales", "A">>, <<"sales", "B">> >>

CatalogTable(slot, ixs) ==
    [key |-> TableKey(slot[1], slot[2]), schema |-> slot[1], name |-> slot[2],
     columns |-> << Column("Id", <<"i","n","t">>, <<None, None, None>>, None, 1),
                    Column("Name", <<"n","v","a","r","c","h","a","r">>,
                           <<Some(MaxLength), None, None>>, None, 2) >>,
     row_count |-> 0, indexes |-> ixs]

\* the databases: one table, or two tables of different identity
CatalogDatabases ==
    { << CatalogTable(CatalogSlots[i], x) >> :
        i \in 1..Len(CatalogSlots), x \in CatalogIndexSets }
      \cup UNION { { << CatalogTable(CatalogSlots[p[1]], x),
                        CatalogTable(CatalogSlots[p[2]], y) >> :
                      x \in CatalogIndexSets, y \in CatalogIndexSets } :
                   p \in { q \in (1..Len(CatalogSlots)) \X (1..Len(CatalogSlots)) :
                             q[1] < q[2] } }

InitAnalyze ==
    /\ pc = "analyze"
    /\ dry_run = FALSE
    /\ batch_size = 1
    /\ source \in CatalogDatabases
    /\ source_views = <<>>
    /\ metadata = None
    /\ converted_schema = None
    /\ table_i = 1
    /\ generator = None
    /\ data_batch = None
    /\ converted_data = None
    /\ calls = <<>>
    /\ audit_data = <<>>
    /\ audit_file = <<>>
    /\ clock = 0
    /\ exc = None
    /\ exit_status = None
    /\ target = <<>>
    /\ perf_report = None
    /\ NoDefault
    /\ NoColumns
    /\ NoIndexes
    /\ NoTsql
    /\ NoFrame

\* analyze() line 96: an exception leaves analyze() and reaches main
AnalyzeExtract ==
    /\ pc = "analyze"
    /\ \E raised \in BOOLEAN, index_rows \in SortedRowSeqs(IndexRows) :
         /\ calls' = Append(calls, Call("extractor", "extract_metadata", None, raised))
         /\ IF raised
            THEN /\ exc' = Some([message |-> "extract_metadata", raised_in |-> "Analyze"])
                 /\ pc' = "raise"
                 /\ UNCHANGED metadata
            ELSE /\ metadata' = Some(extract_metadata(index_rows))
                 /\ pc' = "analyze_schema"
                 /\ UNCHANGED exc
    /\ UNCHANGED <<cfg_vars, target, converted_schema, loop_vars, audit_vars, exit_status,
                   perf_report, warnings, def_vars, col_vars, idx_vars, tsql_vars,
                   df_vars>>

\* analyze() lines 99-107
AnalyzeSchema ==
    /\ pc = "analyze_schema"
    /\ calls' = Append(calls, Call("perf_analyzer", "analyze_schema", None, FALSE))
    /\ perf_report' = Some(analyze_schema(metadata[1]))
    /\ pc' = "returned"
    /\ UNCHANGED <<cfg_vars, target, metadata, converted_schema, loop_vars, audit_vars, exc,
                   exit_status, warnings, def_vars, col_vars, idx_vars, tsql_vars,
                   df_vars>>

NextAnalyze ==
    \/ AnalyzeExtract
    \/ AnalyzeSchema
    \/ MainExcept
    \/ MainReturn

SpecAnalyze ==
    InitAnalyze /\ [][NextAnalyze]_vars

\* the source table of a key of the tables map has a primary key
HasPrimaryKey(key) ==
    \E t \in 1..Len(source) :
        /\ source[t].key = key
        /\ \E x \in 1..Len(source[t].indexes) : source[t].indexes[x].is_primary_key

\* the missing_primary_key recommendations of the report for one table
MissingPkRecommendations(key) ==
    { r \in 1..Len(perf_report[1].indexing) :
        /\ perf_report[1].indexing[r].type = "missing_primary_key"
        /\ perf_report[1].indexing[r].table = key }

\* C15: on the snapshot extract_metadata built, analyze_schema reports exactly
\* one missing_primary_key recommendation, of severity high, for each table
\* that has no primary key, and none for a table that has one.
C15_MissingPkOnlyWhereMissing ==
    perf_report # None =>
        \A i \in 1..Len(metadata[1].tables) :
            LET key == metadata[1].tables[i].key
            IN  IF HasPrimaryKey(key)
                THEN MissingPkRecommendations(key) = {}
                ELSE /\ Cardinality(MissingPkRecommendations(key)) = 1
                     /\ \A r \in MissingPkRecommendations(key) :
                           perf_report[1].indexing[r].severity = "high"

\* the indexes of the source database, each with the key of its table
SourceIndexes ==
    UNION { { [table |-> source[t].key, name |-> source[t].indexes[x].name,
               columns |-> source[t].indexes[x].columns] :
              x \in 1..Len(source[t].indexes) } : t \in 1..Len(source) }

\* C16: in the snapshot extract_metadata built, the `table` of every index is
\* a key of the tables map, and the indexes map holds one entry for each
\* index of the database, with the columns of that index and of no other:
\* indexes of different tables are not stored under one key.
C16_IndexesKeyedByOwningTable ==
    metadata # None =>
        /\ \A j \in 1..Len(metadata[1].indexes) :
              \E i \in 1..Len(metadata[1].tables) :
                  metadata[1].tables[i].key = metadata[1].indexes[j].table
        /\ Len(metadata[1].indexes) = Cardinality(SourceIndexes)
        /\ \A j \in 1..Len(metadata[1].indexes) :
              \E x \in SourceIndexes :
                  /\ x.name = metadata[1].indexes[j].name
                  /\ x.columns = metadata[1].indexes[j].columns

----------------------------------------------------------------------------
(* Properties of the data-migration loop *)

\* the tables extract_data was called for, in call order
ExtractDataArgs ==
    LET cs == SelectSeq(calls, LAMBDA c : c.op = "extract_data")
    IN  [n \in 1..Len(cs) |-> cs[n].arg]

\* the batches the extractor returned, by the index of their read_batch call
BatchesRead ==
    { i \in CallsOf("read_batch") : ~calls[i].raised }

\* the batch returned by the read_batch call at index i
BatchOf(i) ==
    ReadBatch(calls[i].arg[1], calls[i].arg[2], batch_size)

\* the calls through which the extractor is asked for more
Requests ==
    {"extract_data", "count_rows", "read_batch"}

\* C17: extract_data is called once per table, in the iteration order of the
\* converted schema's tables; a batch the extractor returned is converted,
\* and outside dry-run loaded, before the extractor is asked for anything
\* more, whether the next batch of the table or the first batch of the next
\* table; at most one batch is read and not yet processed; every batch is read
\* from the table of the latest extract_data call.
C17_StrictlySequential ==
    (pc # "idle" /\ converted_schema # None) =>
        /\ Len(ExtractDataArgs) <= Len(converted_schema[1].tables)
        /\ \A n \in 1..Len(ExtractDataArgs) :
              ExtractDataArgs[n] = converted_schema[1].tables[n].key
        /\ Completed => Len(ExtractDataArgs) = Len(converted_schema[1].tables)
        /\ \A i \in BatchesRead : \A j \in (i + 1)..Len(calls) :
              calls[j].op \in Requests =>
                  \E c \in (i + 1)..(j - 1) :
                      /\ calls[c].op = "convert_batch"
                      /\ calls[c].arg = BatchOf(i)
                      /\ ~dry_run =>
                            \E l \in (c + 1)..(j - 1) :
                                /\ calls[l].op = "load_data"
                                /\ calls[l].arg = convert_batch(BatchOf(i))
        /\ Cardinality(BatchesRead)
             - Cardinality(CallsOf(IF dry_run THEN "convert_batch" ELSE "load_data"))
                 \in {0, 1}
        /\ \A i \in CallsOf("read_batch") :
              \E e \in CallsOf("extract_data") :
                  /\ e < i
                  /\ calls[e].arg = calls[i].arg[1]
                  /\ \A f \in CallsOf("extract_data") : f < i => f <= e

\* C17 witness: a completed run without dry-run over two tables, the first
\* of which was read in two batches or more
C17_Witness ==
    /\ pc = "exited"
    /\ exit_status = Some(0)
    /\ ~dry_run
    /\ Len(source) = 2
    /\ Cardinality({ i \in BatchesRead : calls[i].arg[1] = source[1].key }) >= 2
    /\ Cardinality({ i \in BatchesRead : calls[i].arg[1] = source[2].key }) >= 1
    /\ Cardinality(CallsOf("load_data")) = Cardinality(BatchesRead)

\* the page requests made for the table at position t, answered or not
ReadsOf(t) ==
    { i \in CallsOf("read_batch") : calls[i].arg[1] = metadata[1].tables[t].key }

\* the loop of extract_data for the table at position t is over: the
\* generator was exhausted, or the server refused a page query for its FETCH
\* count
ExtractionOver(t) ==
    \/ t < table_i
    \/ \E i \in ReadsOf(t) : calls[i].raised /\ _fetch_refused(batch_size)

\* C18: for a table of N rows and the batch_size b of any accepted
\* configuration, the pages are requested at offsets 0, b, 2b, ..., each below
\* N, and when the extraction of the table is over it has yielded ceil(N/b)
\* batches: none for N = 0, else the number n with (n-1)*b < N <= n*b.
C18_CeilBatchesPerTable ==
    (pc # "idle" /\ metadata # None) =>
        \A t \in 1..Len(metadata[1].tables) :
            LET N == CountRows(metadata[1].tables[t].key)
                yielded == Cardinality({ i \in ReadsOf(t) : ~calls[i].raised })
            IN  /\ \A i \in ReadsOf(t) :
                      /\ calls[i].arg[2]
                            = Cardinality({ j \in ReadsOf(t) : j < i }) * batch_size
                      /\ calls[i].arg[2] < N
                /\ ExtractionOver(t) =>
                      IF N = 0
                      THEN yielded = 0
                      ELSE /\ batch_size > 0
                           /\ (yielded - 1) * batch_size < N
                           /\ N <= yielded * batch_size

\* C20: once extracted, the snapshot is at every later point of migrate()
\* what extract_metadata built from the source database (tables with their
\* columns, views, indexes), the call of convert included; the tables map
\* of the converted schema has the keys of the snapshot's in the same order,
\* each table with the same schema and name and with the same columns, by
\* name and ordinal position, in the same order.
C20_SnapshotUnchanged ==
    (pc # "idle" /\ metadata # None) =>
        /\ \E index_rows \in SortedRowSeqs(IndexRows) :
              metadata[1] = extract_metadata(index_rows)
        /\ converted_schema # None =>
              LET src == metadata[1].tables
                  dst == converted_schema[1].tables
              IN  /\ Len(dst) = Len(src)
                  /\ \A i \in 1..Len(src) :
                        /\ dst[i].key = src[i].key
                        /\ dst[i].schema = src[i].schema
                        /\ dst[i].name = src[i].name
                        /\ Len(dst[i].columns) = Len(src[i].columns)
                        /\ \A c \in 1..Len(src[i].columns) :
                              /\ dst[i].columns[c].name = src[i].columns[c].name
                              /\ dst[i].columns[c].ordinal_position
                                    = src[i].columns[c].ordinal_position

\* C20 witness: a run without dry-run has gone through every phase on a
\* snapshot with two tables, a view and indexes, and the converted schema
\* differs from the snapshot in its tables, its view and its indexes
C20_Witness ==
    /\ pc = "exited"
    /\ exit_status = Some(0)
    /\ ~dry_run
    /\ Len(metadata[1].tables) = 2
    /\ Len(metadata[1].views) = 1
    /\ Len(metadata[1].indexes) >= 2
    /\ converted_schema[1].tables # metadata[1].tables
    /\ converted_schema[1].views # metadata[1].views
    /\ Len(converted_schema[1].indexes) < Len(metadata[1].indexes)
    /\ Cardinality(CallsOf("load_data")) >= 1

----------------------------------------------------------------------------
(* Where the rows land in the target database *)

\* the number of rows in the batches load_data wrote for the table of key k
RowsLoadedFor(k) ==
    Cardinality(UNION { { <<i, r>> : r \in 1..Len(calls[i].arg.rows) } :
                          i \in { j \in CallsOf("load_data") :
                                    ~calls[j].raised /\ calls[j].arg.table = k } })

\* C21: in a run without dry-run, every relation of the target database was
\* created by create_schema, never by load_data, and the rows of every batch
\* loaded for a table (S, T) are in the relation create_schema created from
\* the converted table (S, T).
C21_LoadsIntoCreatedTables ==
    (~dry_run /\ pc # "idle") =>
        /\ \A r \in 1..Len(target) : target[r].created_by = "create_schema"
        /\ \A t \in 1..(IF converted_schema = None
                        THEN 0 ELSE Len(converted_schema[1].tables)) :
             LET table_info == converted_schema[1].tables[t]
             IN  RowsLoadedFor(table_info.key) > 0 =>
                    \E r \in 1..Len(target) :
                        /\ target[r].key = _generate_table_ddl(table_info)
                        /\ target[r].rows = RowsLoadedFor(table_info.key)

----------------------------------------------------------------------------
(* What is loaded against what was extracted *)

\* the arguments of the calls of `op` that were made for the table of key k
\* and did not raise, in call order
BatchesOf(op, k) ==
    LET is(c) == c.op = op /\ ~c.raised /\ c.arg.table = k
        made == SelectSeq(calls, is)
    IN  [i \in 1..Len(made) |-> made[i].arg]

\* the batches extract_data yielded for the table of key k, in order: the
\* answers to its page queries
YieldedFor(k) ==
    LET is(c) == c.op = "read_batch" /\ ~c.raised /\ c.arg[1] = k
        made == SelectSeq(calls, is)
    IN  [i \in 1..Len(made) |-> ReadBatch(k, made[i].arg[2], batch_size)]

\* the number of rows in a sequence of batches
RowsIn(batches) ==
    Cardinality(UNION { { <<i, r>> : r \in 1..Len(batches[i].rows) } :
                          i \in 1..Len(batches) })

\* C22: when a run without dry-run has completed, for every table the
\* batches handed to convert_batch are the batches extract_data yielded for
\* it, in the same order, the batches handed to load_data are their
\* conversions, in the same order, each once, and the rows loaded for the
\* table are as many as the rows of the batches extracted for it.
C22_LoadedIsConvertedExtracted ==
    (~dry_run /\ Completed /\ metadata # None) =>
        \A t \in 1..Len(metadata[1].tables) :
            LET k == metadata[1].tables[t].key
                yielded == YieldedFor(k)
            IN  /\ BatchesOf("convert_batch", k) = yielded
                /\ BatchesOf("load_data", k) =
                       [i \in 1..Len(yielded) |-> convert_batch(yielded[i])]
                /\ RowsIn(BatchesOf("load_data", k)) = RowsIn(yielded)

C22_Witness ==
    /\ ~dry_run
    /\ pc = "exited"
    /\ exit_status = Some(0)
    /\ Len(source) = 2
    /\ batch_size = 1
    /\ Len(YieldedFor(source[1].key)) = 2
    /\ Len(BatchesOf("load_data", source[1].key)) = 2
    /\ RowsIn(BatchesOf("load_data", source[2].key)) = 1

====
